---------------------------- MODULE Spec2Model ----------------------------
(***************************************************************************)
(* A model of the markdown renderer of ionut-t/notes                       *)
(* (markdown/markdown.go): line classification (ParseLines), the two       *)
(* renderers (Render, RenderPreservingAll) and the word-based wrapLine;    *)
(* of its style registry and of the hard-break wrapLine of the earlier     *)
(* renderer (unnamed/part_001, part_000); and of the note Store            *)
(* (note/note.go): CopyLines, ParseCopyLinesCommand, and the notes list.   *)
(*                                                                         *)
(* A Go string is a sequence of one-character strings; "ESC" stands for    *)
(* the single byte 27, "BQ" for the backquote and "\n" for the newline.    *)
(***************************************************************************)
EXTENDS Integers, Sequences, FiniteSets

VARIABLES
    Content,      \* Model.Content
    Width,        \* Model.Width
    LineNumbers,  \* Model.LineNumbers
    Lines,        \* Model.Lines
    chroma,       \* how the chroma highlighter behaves: "ok" | "short" | "err"
    colorProfile, \* the colour profile lipgloss found for the terminal
    result,       \* the lines written to the result of the last render call
    panicked,     \* the last render call ended in a runtime panic
    op,           \* the last operation called on the Model
    wLine,        \* wrapLine: argument line
    wWidth,       \* wrapLine: argument width
    wOut,         \* wrapLine: returned slice
    wDone,        \* wrapLine has returned
    fText,        \* applyInlineFormatting: argument text
    fOut,         \* applyInlineFormatting: returned string
    fDone,        \* applyInlineFormatting has returned
    eLine,        \* the Line an iteration of the loop of Render works on
    eNum,         \* its line number (lineNum)
    eOut,         \* the lines that iteration wrote to the result
    eDone,        \* the iteration has ended
    registry,     \* the names registered in chroma's styles.Registry
    regWrites,    \* the number of writes made to styles.Registry
    tCalls,       \* the number of calls made by the callers
    tpc,          \* the position of each caller in its call
    tfn,          \* the function each caller called last
    tmode,        \* the mode argument of its SetCatppuccinTheme call
    mStyle,       \* Model.Style of the model of each caller
    mTerminalTheme, \* Model.TerminalTheme of the model of each caller
    hLine,        \* hard-break wrapLine: argument line
    hWidth,       \* hard-break wrapLine: argument width
    hRemaining,   \* hard-break wrapLine: remainingLine
    hWrapped,     \* hard-break wrapLine: wrappedLines
    hpc,          \* hard-break wrapLine: position of the call
    cContent,     \* CopyLines: argument content
    cStart,       \* CopyLines: argument start
    cEnd,         \* CopyLines: argument end
    clipFails,    \* clipboard.WriteAll returns an error
    clipboard,    \* the text on the clipboard
    cCount,       \* CopyLines: returned count
    cErr,         \* CopyLines: returned error ("nil": none)
    cDone,        \* CopyLines has returned
    pCmd,         \* ParseCopyLinesCommand: argument cmd
    pStart,       \* ParseCopyLinesCommand: first returned int
    pEnd,         \* ParseCopyLinesCommand: second returned int
    pErr,         \* ParseCopyLinesCommand: returned error ("nil": none)
    pDone,        \* ParseCopyLinesCommand has returned
    files,        \* the notes on disk (<name>.md in the storage), newest first
    notes,        \* Store.notes: the names of the notes of the list
    notesDictionary, \* Store.notesDictionary: its keys
    currentNoteName, \* Store.currentNoteName
    sCalls,       \* the number of calls made on the Store
    sOp,          \* the last function called on the Store
    sArg,         \* the note that call worked on
    sErr,         \* the error it returned ("nil": none)
    sRet,         \* the name of the Note it returned
    sOnlyKept,    \* every call so far was LoadNotes, Delete or RenameNote, and succeeded
    gName,        \* generateUniqueName: argument name of the last call
    gExisting,    \* the names of the notes on disk at that call
    gResult,      \* generateUniqueName: returned name
    overwrote     \* the last call wrote over the file of another note

themeVars == <<registry, regWrites, tCalls, tpc, tfn, tmode, mStyle,
               mTerminalTheme>>
hardVars == <<hLine, hWidth, hRemaining, hWrapped, hpc>>
copyVars == <<cContent, cStart, cEnd, clipFails, clipboard, cCount, cErr, cDone>>
cmdVars == <<pCmd, pStart, pEnd, pErr, pDone>>
storeVars == <<files, notes, notesDictionary, currentNoteName, sCalls, sOp, sArg,
               sErr, sRet, sOnlyKept, gName, gExisting, gResult, overwrote>>
restVars == <<themeVars, hardVars, copyVars, cmdVars, storeVars>>
vars == <<Content, Width, LineNumbers, Lines, chroma, colorProfile, result,
          panicked, op, wLine, wWidth, wOut, wDone, fText, fOut, fDone,
          eLine, eNum, eOut, eDone, restVars>>
modelVars == <<Content, Width, LineNumbers, Lines, chroma, colorProfile, result,
               panicked, op>>
wrapVars == <<wLine, wWidth, wOut, wDone>>
inlineVars == <<fText, fOut, fDone>>
emitVars == <<eLine, eNum, eOut, eDone>>
rendererVars == <<modelVars, wrapVars, inlineVars, emitVars>>
notThemeVars == <<rendererVars, hardVars, copyVars, cmdVars, storeVars>>
notHardVars == <<rendererVars, themeVars, copyVars, cmdVars, storeVars>>
notCopyVars == <<rendererVars, themeVars, hardVars, cmdVars, storeVars>>
notCmdVars == <<rendererVars, themeVars, hardVars, copyVars, storeVars>>
notStoreVars == <<rendererVars, themeVars, hardVars, copyVars, cmdVars>>

----------------------------------------------------------------------------
(* Bounds of the model *)

\* the largest number of source lines of a content given to ParseLines
MaxParseLines == 3

\* the largest number of source lines of a content that is rendered
MaxLines == 4

\* the longest line given to wrapLine, and the largest width
MaxWrapLen == 5
MaxWrapWidth == 3

\* the longest text of markup characters given to applyInlineFormatting, and
\* the longest url of a link
MaxInlineLen == 6
MaxUrlLen == 3

\* the longest text of a line given to one iteration of the loop of Render
MaxEmitLen == 4

----------------------------------------------------------------------------
(* Strings *)

NL == "\n"
ESC == "ESC"
\* the backquote character
BQ == "BQ"

Min(S) == CHOOSE x \in S : \A y \in S : x <= y
Max(S) == CHOOSE x \in S : \A y \in S : x >= y

\* strings.HasPrefix
HasPrefix(s, p) == Len(s) >= Len(p) /\ SubSeq(s, 1, Len(p)) = p

\* strings.TrimPrefix
TrimPrefix(s, p) == IF HasPrefix(s, p) THEN SubSeq(s, Len(p) + 1, Len(s)) ELSE s

\* unicode.IsSpace, on the characters of the model
IsSpace(c) == c \in {" ", "\t", "\n"}

\* strings.TrimSpace
TrimSpace(s) ==
    LET keep == {i \in 1..Len(s) : ~IsSpace(s[i])}
    IN  IF keep = {} THEN <<>> ELSE SubSeq(s, Min(keep), Max(keep))

\* strings.Split(s, sep) for a one-character separator: one segment more than
\* there are separators, the empty segments kept
Split(s, sep) ==
    LET seps == {i \in 1..Len(s) : s[i] = sep}
        n == Cardinality(seps)
        pos(k) == CHOOSE i \in seps : Cardinality({j \in seps : j < i}) = k - 1
        first(k) == IF k = 1 THEN 1 ELSE pos(k - 1) + 1
        last(k) == IF k = n + 1 THEN Len(s) ELSE pos(k) - 1
    IN  [k \in 1..(n + 1) |-> SubSeq(s, first(k), last(k))]

\* strings.Join(parts, sep)
RECURSIVE Join(_, _)
Join(parts, sep) ==
    IF Len(parts) = 0 THEN <<>>
    ELSE IF Len(parts) = 1 THEN parts[1]
    ELSE parts[1] \o <<sep>> \o Join(Tail(parts), sep)

----------------------------------------------------------------------------
(* Line classification *)

LineTypeNormal == 0
LineTypeHeader == 1
LineTypeCodeFence == 2
LineTypeCode == 3
LineTypeEmpty == 4
LineTypeComment == 5

\* the fence token of ParseLines
Fence == <<BQ, BQ, BQ>>

\* Line{Content: content}: the other fields hold Go's zero values
NewLine(content) ==
    [Content |-> content, Type |-> LineTypeNormal, HeaderLevel |-> 0, CodeLang |-> <<>>]

\* the loop over the characters of a line that starts with '#'; j is the
\* 1-based position (Go's index j is j - 1), level the '#' counted so far.
\* When the loop runs off the end of the line, the line is left as it was built.
RECURSIVE HeaderScan(_, _, _, _)
HeaderScan(line, content, j, level) ==
    IF j > Len(content) THEN line
    ELSE IF content[j] = "#" THEN HeaderScan(line, content, j + 1, level + 1)
    ELSE IF content[j] = " " /\ j - 1 = level
         THEN [line EXCEPT !.Type = LineTypeHeader,
                           !.HeaderLevel = level,
                           !.Content = TrimSpace(SubSeq(content, j, Len(content)))]
    ELSE [line EXCEPT !.Type = LineTypeComment]

\* ParseLine as a classifier that nests fences would be: inside a block, a
\* fence-token line that carries a language does not close the block
ParseLineNested(st, content) ==
    LET line == NewLine(content)
    IN  IF HasPrefix(content, Fence) /\ ~(st.inCodeBlock /\ Len(content) > Len(Fence))
        THEN [inCodeBlock |-> ~st.inCodeBlock,
              codeLang |-> IF st.inCodeBlock THEN <<>> ELSE TrimPrefix(content, Fence),
              Lines |-> Append(st.Lines,
                  [line EXCEPT !.Type = LineTypeCodeFence,
                               !.CodeLang = IF st.inCodeBlock THEN <<>>
                                            ELSE TrimPrefix(content, Fence)])]
        ELSE IF st.inCodeBlock
        THEN [st EXCEPT !.Lines = Append(st.Lines,
                       [line EXCEPT !.Type = LineTypeCode, !.CodeLang = st.codeLang])]
        ELSE IF HasPrefix(content, <<"#">>)
        THEN [st EXCEPT !.Lines = Append(st.Lines, HeaderScan(line, content, 1, 0))]
        ELSE IF Len(TrimSpace(content)) = 0
        THEN [st EXCEPT !.Lines = Append(st.Lines, [line EXCEPT !.Type = LineTypeEmpty])]
        ELSE [st EXCEPT !.Lines = Append(st.Lines, [line EXCEPT !.Type = LineTypeNormal])]

\* ParseLine as a classifier that keeps blank lines Empty inside a block would be
ParseLineBlankInCode(st, content) ==
    LET line == NewLine(content)
    IN  IF HasPrefix(content, Fence)
        THEN [inCodeBlock |-> ~st.inCodeBlock,
              codeLang |-> IF st.inCodeBlock THEN <<>> ELSE TrimPrefix(content, Fence),
              Lines |-> Append(st.Lines,
                  [line EXCEPT !.Type = LineTypeCodeFence,
                               !.CodeLang = IF st.inCodeBlock THEN <<>>
                                            ELSE TrimPrefix(content, Fence)])]
        ELSE IF Len(TrimSpace(content)) = 0
        THEN [st EXCEPT !.Lines = Append(st.Lines, [line EXCEPT !.Type = LineTypeEmpty])]
        ELSE IF st.inCodeBlock
        THEN [st EXCEPT !.Lines = Append(st.Lines,
                       [line EXCEPT !.Type = LineTypeCode, !.CodeLang = st.codeLang])]
        ELSE IF HasPrefix(content, <<"#">>)
        THEN [st EXCEPT !.Lines = Append(st.Lines, HeaderScan(line, content, 1, 0))]
        ELSE [st EXCEPT !.Lines = Append(st.Lines, [line EXCEPT !.Type = LineTypeNormal])]

\* one iteration of the loop of ParseLines: st is [inCodeBlock, codeLang, Lines]
ParseLine(st, content) ==
    LET line == NewLine(content)
    IN  IF HasPrefix(content, Fence)
        THEN IF ~st.inCodeBlock
             THEN [inCodeBlock |-> TRUE,
                   codeLang |-> TrimPrefix(content, Fence),
                   Lines |-> Append(st.Lines,
                       [line EXCEPT !.Type = LineTypeCodeFence,
                                    !.CodeLang = TrimPrefix(content, Fence)])]
             ELSE [inCodeBlock |-> FALSE,
                   codeLang |-> <<>>,
                   Lines |-> Append(st.Lines, [line EXCEPT !.Type = LineTypeCodeFence])]
        ELSE IF st.inCodeBlock
        THEN [st EXCEPT !.Lines = Append(st.Lines,
                       [line EXCEPT !.Type = LineTypeCode, !.CodeLang = st.codeLang])]
        ELSE IF HasPrefix(content, <<"#">>)
        THEN [st EXCEPT !.Lines = Append(st.Lines, HeaderScan(line, content, 1, 0))]
        ELSE IF Len(TrimSpace(content)) = 0
        THEN [st EXCEPT !.Lines = Append(st.Lines, [line EXCEPT !.Type = LineTypeEmpty])]
        ELSE [st EXCEPT !.Lines = Append(st.Lines, [line EXCEPT !.Type = LineTypeNormal])]

RECURSIVE ParseLoop(_, _, _)
ParseLoop(contentLines, i, st) ==
    IF i > Len(contentLines) THEN st
    ELSE ParseLoop(contentLines, i + 1, ParseLine(st, contentLines[i]))

\* ParseLines as a line scanner that yields no line after a final newline would be
ParseLinesNoTrailing(content) ==
    LET segs == Split(content, NL)
        kept == IF Len(segs) > 1 /\ segs[Len(segs)] = <<>>
                THEN SubSeq(segs, 1, Len(segs) - 1) ELSE segs
    IN  ParseLoop(kept, 1,
                  [inCodeBlock |-> FALSE, codeLang |-> <<>>, Lines |-> <<>>]).Lines

\* Model.ParseLines: the value it leaves in m.Lines
ParseLines(content) ==
    ParseLoop(Split(content, NL), 1,
              [inCodeBlock |-> FALSE, codeLang |-> <<>>, Lines |-> <<>>]).Lines

----------------------------------------------------------------------------
(* Styling *)

\* the colour profiles of a terminal the model covers: one without colours
\* (no terminal, NO_COLOR, TERM=dumb) and one with colours
ColorProfiles == {"Ascii", "TrueColor"}

\* a lipgloss style rendered on a text: the text between an escape run that
\* selects the style and the run that resets it; under the Ascii profile no
\* escape run is written and the text is returned as it is.  The parameter
\* bytes of a run are kept as one element: no operation of the renderer
\* looks inside them.
StyleRender(style, text) ==
    IF colorProfile = "Ascii" THEN text
    ELSE <<ESC, "[", style, "m">> \o text \o <<ESC, "[", "0", "m">>

\* text[p .. p + Len(d) - 1] = d
HasAt(text, p, d) ==
    /\ p >= 1
    /\ p + Len(d) - 1 <= Len(text)
    /\ SubSeq(text, p, p + Len(d) - 1) = d

\* regexp.ReplaceAllStringFunc of  d (inner) d  from position p on, where
\* inner is the shortest text up to the next d, at least minInner long: the
\* leftmost match is replaced by the styled inner text, and the scan goes on
\* behind it.  (\*\*(.*?)\*\*, __(.*?)__, \*(.*?)\*, _(.*?)_ have minInner 0;
\* the inline code pattern has minInner 1.)
RECURSIVE ReplaceSpans(_, _, _, _, _)
ReplaceSpans(text, p, d, minInner, style) ==
    IF p > Len(text) THEN <<>>
    ELSE LET closes == {q \in (p + Len(d))..Len(text) : HasAt(text, q, d)}
             q == Min(closes)
         IN  IF HasAt(text, p, d) /\ closes # {} /\ q >= p + Len(d) + minInner
             THEN StyleRender(style, SubSeq(text, p + Len(d), q - 1))
                      \o ReplaceSpans(text, q + Len(d), d, minInner, style)
             ELSE <<text[p]>> \o ReplaceSpans(text, p + 1, d, minInner, style)

\* the link pattern \[([^\]]+)\]\(([^)]+)\) from position p on
RECURSIVE ReplaceLinks(_, _)
ReplaceLinks(text, p) ==
    IF p > Len(text) THEN <<>>
    ELSE LET rb == {q \in (p + 1)..Len(text) : text[q] = "]"}
             q == Min(rb)
             rp == {r \in (q + 2)..Len(text) : text[r] = ")"}
             r == Min(rp)
         IN  IF /\ text[p] = "["
                /\ rb # {}
                /\ q >= p + 2
                /\ HasAt(text, q + 1, <<"(">>)
                /\ rp # {}
                /\ r >= q + 3
             THEN StyleRender("info;bold", SubSeq(text, p + 1, q - 1))
                      \o <<" ">>
                      \o StyleRender("info", <<"(">> \o SubSeq(text, q + 2, r - 1) \o <<")">>)
                      \o ReplaceLinks(text, r + 1)
             ELSE <<text[p]>> \o ReplaceLinks(text, p + 1)

\* applyInlineFormatting as a formatter whose italic * pass runs before its
\* bold ** pass would be
applyInlineFormattingItalicFirst(text) ==
    ReplaceSpans(
        ReplaceSpans(
            ReplaceSpans(
                ReplaceSpans(
                    ReplaceSpans(ReplaceLinks(text, 1),
                                 1, <<"*">>, 0, "text;italic"),
                    1, <<"*", "*">>, 0, "text;bold"),
                1, <<"_", "_">>, 0, "text;bold"),
            1, <<"_">>, 0, "text;italic"),
        1, <<BQ>>, 1, "accent")

\* Model.applyInlineFormatting
\* the passes in their order: links, bold **, bold __, italic *, italic _,
\* inline code, each on the result of the one before
applyInlineFormatting(text) ==
    ReplaceSpans(
        ReplaceSpans(
            ReplaceSpans(
                ReplaceSpans(
                    ReplaceSpans(ReplaceLinks(text, 1),
                                 1, <<"*", "*">>, 0, "text;bold"),
                    1, <<"_", "_">>, 0, "text;bold"),
                1, <<"*">>, 0, "text;italic"),
            1, <<"_">>, 0, "text;italic"),
        1, <<BQ>>, 1, "accent")

\* the switch of formatHeaderLine on the header level
HeaderStyle(level, content) ==
    CASE level = 1 -> StyleRender("primary;bold", content)
      [] level = 2 -> StyleRender("info", content)
      [] level \in 3..6 -> StyleRender("accent;italic", content)
      [] OTHER -> content

\* Model.formatHeaderLine
formatHeaderLine(line) ==
    HeaderStyle(line.HeaderLevel, applyInlineFormatting(line.Content))

----------------------------------------------------------------------------
(* Highlighting *)

\* what the formatter writes for the lines of a code
ColourLines(ls) ==
    [k \in 1..Len(ls) |->
        IF ls[k] = <<>> THEN <<>>
        ELSE <<ESC, "[", "38;5", "m">> \o ls[k] \o <<ESC, "[", "0", "m">>]

\* a text without the newlines it ends with
TrimRightNewlines(text) ==
    IF \A i \in 1..Len(text) : text[i] = NL THEN <<>>
    ELSE SubSeq(text, 1, Max({i \in 1..Len(text) : text[i] # NL}))

\* the behaviours of the highlighter the model covers
ChromaModes == {"ok", "short", "err"}

\* syntaxHighlightWithChroma as a highlighter that returns nothing when
\* Tokenise or Format fails would be
syntaxHighlightErrEmpty(code, mode) ==
    IF TrimSpace(code) = <<>> \/ mode = "err" THEN <<>>
    ELSE IF mode = "short"
         THEN TrimRightNewlines(Join(ColourLines(Split(code, NL)), NL))
    ELSE Join(ColourLines(Split(code, NL)), NL)

\* Model.syntaxHighlightWithChroma.  The chroma formatter writes each token
\* between escape runs; it keeps the newlines ("ok") or returns fewer lines
\* than it was given, here by dropping the newlines at the end ("short");
\* when Tokenise or Format fails ("err") the code is returned as it is.
syntaxHighlightWithChroma(code, mode) ==
    IF TrimSpace(code) = <<>> THEN <<>>
    ELSE IF mode = "err" THEN code
    ELSE IF mode = "short"
         THEN TrimRightNewlines(Join(ColourLines(Split(code, NL)), NL))
    ELSE Join(ColourLines(Split(code, NL)), NL)

\* the code of a block: each line followed by a newline
RECURSIVE BlockCode(_)
BlockCode(block) ==
    IF block = <<>> THEN <<>>
    ELSE block[1].Content \o <<NL>> \o BlockCode(Tail(block))

\* PadLines as a step that returns the lines of the highlighter as they are
\* would be
PadLinesNone(highlightedLines, n) == highlightedLines

\* Model.highlightCodeBlock
PadLines(highlightedLines, n) ==
    IF Len(highlightedLines) < n
    THEN highlightedLines \o [k \in 1..(n - Len(highlightedLines)) |-> <<>>]
    ELSE highlightedLines

highlightCodeBlock(block, mode) ==
    IF Len(block) = 0 THEN <<>>
    ELSE PadLines(Split(syntaxHighlightWithChroma(BlockCode(block), mode), NL),
                  Len(block))

----------------------------------------------------------------------------
(* Line numbers *)

Digit(d) == <<"0", "1", "2", "3", "4", "5", "6", "7", "8", "9">>[d + 1]

\* the decimal digits of n >= 0
RECURSIVE Itoa(_)
Itoa(n) == IF n < 10 THEN <<Digit(n)>> ELSE Itoa(n \div 10) \o <<Digit(n % 10)>>

\* fmt.Sprintf("%3d ", n): the number right-aligned in three columns, then a space
Sprintf3d(n) ==
    LET num == IF n < 0 THEN <<"-">> \o Itoa(-n) ELSE Itoa(n)
        pad == IF Len(num) < 3 THEN [k \in 1..(3 - Len(num)) |-> " "] ELSE <<>>
    IN  pad \o num \o <<" ">>

\* Model.addLineNumber
addLineNumber(numbers, lineNum, line) ==
    IF ~numbers THEN line
    ELSE StyleRender("subtext0", Sprintf3d(lineNum)) \o line

----------------------------------------------------------------------------
(* Wrapping *)

\* Model.estimateVisibleLength, from position i on
RECURSIVE VisibleFrom(_, _, _, _)
VisibleFrom(text, i, inEscapeSeq, visible) ==
    IF i > Len(text) THEN visible
    ELSE IF inEscapeSeq
         THEN VisibleFrom(text, i + 1, text[i] # "m", visible)
    ELSE IF text[i] = ESC
         THEN VisibleFrom(text, i + 1, TRUE, visible)
    ELSE VisibleFrom(text, i + 1, FALSE, visible + 1)

estimateVisibleLength(text) == VisibleFrom(text, 1, FALSE, 0)

\* WrapWord as a packing that forgets the space between two words would be
WrapWordNoSpace(st, word, width) ==
    LET wordVisibleLength == estimateVisibleLength(word)
    IN  IF /\ st.currentLineVisibleLength > 0
           /\ st.currentLineVisibleLength + wordVisibleLength > width
        THEN [wrappedLines |-> Append(st.wrappedLines, st.currentLine),
              currentLine |-> word,
              currentLineVisibleLength |-> wordVisibleLength]
        ELSE [wrappedLines |-> st.wrappedLines,
              currentLine |->
                  (IF st.currentLineVisibleLength > 0
                   THEN st.currentLine \o <<" ">> ELSE st.currentLine) \o word,
              currentLineVisibleLength |->
                  (IF st.currentLineVisibleLength > 0
                   THEN st.currentLineVisibleLength + 1
                   ELSE st.currentLineVisibleLength) + wordVisibleLength]

\* WrapWord as a packing that puts a space before every word, the first word
\* of the line included, would be
WrapWordAlwaysSpace(st, word, width) ==
    LET wordVisibleLength == estimateVisibleLength(word)
    IN  IF /\ st.currentLineVisibleLength > 0
           /\ st.currentLineVisibleLength + 1 + wordVisibleLength > width
        THEN [wrappedLines |-> Append(st.wrappedLines, st.currentLine),
              currentLine |-> word,
              currentLineVisibleLength |-> wordVisibleLength]
        ELSE [wrappedLines |-> st.wrappedLines,
              currentLine |-> st.currentLine \o <<" ">> \o word,
              currentLineVisibleLength |->
                  st.currentLineVisibleLength + 1 + wordVisibleLength]

\* one iteration of the loop of wrapLine over the words:
\* st is [wrappedLines, currentLine, currentLineVisibleLength]
WrapWord(st, word, width) ==
    LET wordVisibleLength == estimateVisibleLength(word)
    IN  IF /\ st.currentLineVisibleLength > 0
           /\ st.currentLineVisibleLength + 1 + wordVisibleLength > width
        THEN [wrappedLines |-> Append(st.wrappedLines, st.currentLine),
              currentLine |-> word,
              currentLineVisibleLength |-> wordVisibleLength]
        ELSE [wrappedLines |-> st.wrappedLines,
              currentLine |->
                  (IF st.currentLineVisibleLength > 0
                   THEN st.currentLine \o <<" ">> ELSE st.currentLine) \o word,
              currentLineVisibleLength |->
                  (IF st.currentLineVisibleLength > 0
                   THEN st.currentLineVisibleLength + 1
                   ELSE st.currentLineVisibleLength) + wordVisibleLength]

RECURSIVE WrapLoop(_, _, _, _)
WrapLoop(words, k, st, width) ==
    IF k > Len(words) THEN st
    ELSE WrapLoop(words, k + 1, WrapWord(st, words[k], width), width)

\* WrapEnd as an end that leaves out the line being built would be
WrapEndDroppingLast(st) == st.wrappedLines

\* the end of wrapLine: the last line is added unless it is empty
WrapEnd(st) ==
    IF st.currentLine # <<>>
    THEN Append(st.wrappedLines, st.currentLine)
    ELSE st.wrappedLines

\* Model.wrapLine
wrapLine(line, width) ==
    IF estimateVisibleLength(line) <= width THEN <<line>>
    ELSE WrapEnd(WrapLoop(Split(line, " "), 1,
                          [wrappedLines |-> <<>>, currentLine |-> <<>>,
                           currentLineVisibleLength |-> 0], width))

----------------------------------------------------------------------------
(* Rendering *)

\* the styled text of a line outside a code block (the switch on line.Type)
FormatLine(line) ==
    CASE line.Type = LineTypeHeader -> formatHeaderLine(line)
      [] line.Type = LineTypeEmpty -> <<>>
      [] line.Type = LineTypeComment -> StyleRender("subtext0;faint", line.Content)
      [] OTHER -> applyInlineFormatting(line.Content)

\* EmitWrapped as a step that numbers every part of a wrapped line would be
EmitWrappedNumberingAll(wrappedLines, lineNum, numbers) ==
    IF Len(wrappedLines) = 0
    THEN [lines |-> <<>>, panic |-> TRUE]
    ELSE [lines |->
             [j \in 1..Len(wrappedLines) |->
                 addLineNumber(numbers, lineNum, wrappedLines[j])],
          panic |-> FALSE]

\* the lines written for a line that was wrapped: its first part numbered,
\* the others behind a blank gutter; [lines, panic], panic when
\* wrappedLines[0] is read from an empty slice
EmitWrapped(wrappedLines, lineNum, numbers) ==
    IF Len(wrappedLines) = 0
    THEN [lines |-> <<>>, panic |-> TRUE]
    ELSE [lines |->
             <<addLineNumber(numbers, lineNum, wrappedLines[1])>> \o
             [j \in 1..(Len(wrappedLines) - 1) |->
                 IF numbers
                 THEN StyleRender("subtext0", <<" ", " ", " ", " ">>)
                          \o wrappedLines[j + 1]
                 ELSE wrappedLines[j + 1]],
          panic |-> FALSE]

\* the lines written for a line outside a code block, given its styled
\* text: the line is wrapped when it is wider than the available width.
\* wrapsCode is FALSE in Render, which excludes LineTypeCode from wrapping,
\* and TRUE in RenderPreservingAll.
EmitFormatted(line, formattedLine, lineNum, availableWidth, numbers, wrapsCode) ==
    IF /\ (wrapsCode \/ line.Type # LineTypeCode)
       /\ line.Type # LineTypeComment
       /\ Len(formattedLine) > 0
       /\ estimateVisibleLength(formattedLine) > availableWidth
    THEN EmitWrapped(wrapLine(formattedLine, availableWidth), lineNum, numbers)
    ELSE [lines |-> <<addLineNumber(numbers, lineNum, formattedLine)>>,
          panic |-> FALSE]

\* the width left for the text: the gutter of the line numbers taken off
AvailableWidth(width, numbers) == IF numbers THEN width - 5 ELSE width

EmitLine(line, lineNum, width, numbers, wrapsCode) ==
    EmitFormatted(line, FormatLine(line), lineNum,
                  AvailableWidth(width, numbers), numbers, wrapsCode)

\* the state of the loop after the lines e of a source line are written
Written(st, e) ==
    [st EXCEPT !.result = st.result \o e.lines, !.panic = e.panic]

\* RenderCodeLineNum as a count from the line of the opening marker would be
RenderCodeLineNumFromMarker(i, n, j) == i - n + j

\* the number Render gives line j (from 0) of a block of n lines closed by
\* the marker at index i (from 0)
RenderCodeLineNum(i, n, j) == i - n + j + 1

\* the number RenderPreservingAll gives that line
PreservingCodeLineNum(i, n, j) == i - n + j

\* the lines written for a closed block: one for each highlighted line j
\* with j < len(codeBlock)
BlockLines(codeBlock, highlightedLines, nums, numbers) ==
    LET n == IF Len(highlightedLines) < Len(codeBlock)
             THEN Len(highlightedLines) ELSE Len(codeBlock)
    IN  [j \in 1..n |->
            addLineNumber(numbers, nums[j], <<" ", " ">> \o highlightedLines[j])]

\* one iteration of the loop of Render on the line at index i (from 0):
\* st is [result, codeBlock, inCodeBlock, panic]
RenderLine(st, line, i, width, numbers, mode) ==
    IF line.Type = LineTypeCodeFence
    THEN IF ~st.inCodeBlock
         THEN [st EXCEPT !.inCodeBlock = TRUE, !.codeBlock = <<>>]
         ELSE [st EXCEPT
                 !.result = st.result \o
                     BlockLines(st.codeBlock, highlightCodeBlock(st.codeBlock, mode),
                                [j \in 1..Len(st.codeBlock) |->
                                    RenderCodeLineNum(i, Len(st.codeBlock), j - 1)],
                                numbers),
                 !.inCodeBlock = FALSE,
                 !.codeBlock = <<>>]
    ELSE IF st.inCodeBlock
    THEN [st EXCEPT !.codeBlock = Append(st.codeBlock, line)]
    ELSE Written(st, EmitLine(line, i + 1, width, numbers, FALSE))

\* the line RenderPreservingAll writes for a fence marker
FenceMarker(line, lineNum, numbers) ==
    addLineNumber(numbers, lineNum, StyleRender("subtext1", line.Content))

\* one iteration of the loop of RenderPreservingAll
PreservingLine(st, line, i, width, numbers, mode) ==
    IF line.Type = LineTypeCodeFence
    THEN IF ~st.inCodeBlock
         THEN [st EXCEPT !.inCodeBlock = TRUE,
                         !.codeBlock = <<>>,
                         !.result = Append(st.result, FenceMarker(line, i + 1, numbers))]
         ELSE [st EXCEPT
                 !.result = Append(st.result \o
                     BlockLines(st.codeBlock, highlightCodeBlock(st.codeBlock, mode),
                                [j \in 1..Len(st.codeBlock) |->
                                    PreservingCodeLineNum(i, Len(st.codeBlock), j - 1)],
                                numbers), FenceMarker(line, i + 1, numbers)),
                 !.inCodeBlock = FALSE,
                 !.codeBlock = <<>>]
    ELSE IF st.inCodeBlock
    THEN [st EXCEPT !.codeBlock = Append(st.codeBlock, line)]
    ELSE Written(st, EmitLine(line, i + 1, width, numbers, TRUE))

RenderStart ==
    [result |-> <<>>, codeBlock |-> <<>>, inCodeBlock |-> FALSE, panic |-> FALSE]

RECURSIVE RenderLoop(_, _, _, _, _, _)
RenderLoop(lines, k, st, width, numbers, mode) ==
    IF k > Len(lines) \/ st.panic THEN st
    ELSE RenderLoop(lines, k + 1,
                    RenderLine(st, lines[k], k - 1, width, numbers, mode),
                    width, numbers, mode)

RECURSIVE PreservingLoop(_, _, _, _, _, _)
PreservingLoop(lines, k, st, width, numbers, mode) ==
    IF k > Len(lines) \/ st.panic THEN st
    ELSE PreservingLoop(lines, k + 1,
                        PreservingLine(st, lines[k], k - 1, width, numbers, mode),
                        width, numbers, mode)

\* Render as a renderer that keeps the fence markers would be
RenderKeepingMarkers(lines, width, numbers, mode) ==
    PreservingLoop(lines, 1, RenderStart, width, numbers, mode)

\* Render as a renderer that closes at the end of the input a fence left
\* open would be
RenderFlushingAtEnd(lines, width, numbers, mode) ==
    IF RenderLoop(lines, 1, RenderStart, width, numbers, mode).inCodeBlock
    THEN RenderLoop(Append(lines, [NewLine(Fence) EXCEPT !.Type = LineTypeCodeFence]),
                    1, RenderStart, width, numbers, mode)
    ELSE RenderLoop(lines, 1, RenderStart, width, numbers, mode)

\* Model.Render: the lines written to the result, each followed by a newline
\* in the string returned, and whether the call panicked
Render(lines, width, numbers, mode) ==
    RenderLoop(lines, 1, RenderStart, width, numbers, mode)

\* Model.RenderPreservingAll
RenderPreservingAll(lines, width, numbers, mode) ==
    PreservingLoop(lines, 1, RenderStart, width, numbers, mode)

----------------------------------------------------------------------------
(* Inputs *)

\* every content of 1..max lines drawn from pool, joined by newlines
ContentsOf(pool, max) ==
    UNION {{Join(ls, NL) : ls \in [1..n -> pool]} : n \in 1..max}

\* the lines the contents given to ParseLines are made of
ParsePool ==
    { <<>>,
      <<" ">>,
      <<"a">>,
      <<"#">>,
      <<"#", "#">>,
      <<"#", "a">>,
      <<"#", " ", "a", " ">>,
      <<"#", "#", " ", "#">>,
      <<"#", "#", "#", "#", "#", "#", " ", "a">>,
      <<"#", "#", "#", "#", "#", "#", "#", " ", "a">>,
      <<BQ, BQ, BQ>>,
      <<BQ, BQ, BQ, "g", "o">> }

ParseContents == ContentsOf(ParsePool, MaxParseLines)

\* the lines the contents that are rendered are made of
RenderPool ==
    { <<>>,
      <<"a", " ", "b", " ", "c">>,
      <<BQ, BQ, BQ>> }

\* "# Title\n\nSome *text*.\n\n```py\nprint(1)\n```\n"
Example ==
    <<"#", " ", "T", "i", "t", "l", "e", NL,
      NL,
      "S", "o", "m", "e", " ", "*", "t", "e", "x", "t", "*", ".", NL,
      NL,
      BQ, BQ, BQ, "p", "y", NL,
      "p", "r", "i", "n", "t", "(", "1", ")", NL,
      BQ, BQ, BQ, NL>>

\* contents of one line: a text that is a single space once its bold markers
\* are taken away, and a header of three words
BlankBold == <<"*", "*", " ", "*", "*">>
HeaderOfWords == <<"#", " ", "a", " ", "b", " ", "c">>

RenderContents ==
    ContentsOf(RenderPool, MaxLines) \cup {Example, BlankBold, HeaderOfWords}

\* the characters of the lines given to wrapLine: a letter, the space, the
\* byte that starts an escape run and the letter that ends one
WrapAlphabet == {"a", " ", ESC, "m"}

WrapLines == UNION {[1..n -> WrapAlphabet] : n \in 0..MaxWrapLen}

WrapWidths == (-1)..MaxWrapWidth

\* the display widths: negative, zero, narrower than a line, narrower than a
\* line once the gutter is taken off, and wider than every line
Widths == {-1, 0, 3, 8, 80}

----------------------------------------------------------------------------
(* The model of a markdown.Model whose content is classified *)

\* the callers that construct and theme models
NumCallers == 2
Callers == 1..NumCallers

\* the styles RegisterCatppuccinStyles registers
CatppuccinStyles == {"catppuccin-mocha", "catppuccin-latte"}

\* no caller is in a call; no model is built yet
callersIdle ==
    /\ tCalls = 0
    /\ tpc = [p \in Callers |-> "idle"]
    /\ tfn = [p \in Callers |-> "none"]
    /\ tmode = [p \in Callers |-> "none"]
    /\ mStyle = [p \in Callers |-> "none"]
    /\ mTerminalTheme = [p \in Callers |-> "none"]

\* the registry as the New that built the Model left it
themeIdle ==
    /\ registry = CatppuccinStyles
    /\ regWrites = Cardinality(CatppuccinStyles)
    /\ callersIdle

\* no call of the hard-break wrapLine
hardIdle ==
    /\ hLine = <<>>
    /\ hWidth = 0
    /\ hRemaining = <<>>
    /\ hWrapped = <<>>
    /\ hpc = "idle"

\* what is on the clipboard before a copy
ClipboardBefore == <<"x">>

\* no call of CopyLines
copyIdle ==
    /\ cContent = <<>>
    /\ cStart = 0
    /\ cEnd = 0
    /\ clipFails = FALSE
    /\ clipboard = ClipboardBefore
    /\ cCount = 0
    /\ cErr = "nil"
    /\ cDone = FALSE

\* no call of ParseCopyLinesCommand
cmdIdle ==
    /\ pCmd = <<>>
    /\ pStart = 0
    /\ pEnd = 0
    /\ pErr = "nil"
    /\ pDone = FALSE

\* NewStore() on a storage that holds the notes dir
NewStore(dir) ==
    /\ files = dir
    /\ notes = <<>>
    /\ notesDictionary = {}
    /\ currentNoteName = <<>>
    /\ sCalls = 0
    /\ sOp = "NewStore"
    /\ sArg = <<>>
    /\ sErr = "nil"
    /\ sRet = <<>>
    /\ sOnlyKept = TRUE
    /\ gName = <<>>
    /\ gExisting = {}
    /\ gResult = <<>>
    /\ overwrote = FALSE

\* a Store on an empty storage, and none of its functions called
storeIdle == NewStore(<<>>)

restIdle ==
    /\ themeIdle
    /\ hardIdle
    /\ copyIdle
    /\ cmdIdle
    /\ storeIdle

wrapIdle ==
    /\ wLine = <<>>
    /\ wWidth = 0
    /\ wOut = <<>>
    /\ wDone = FALSE

inlineIdle ==
    /\ fText = <<>>
    /\ fOut = <<>>
    /\ fDone = FALSE

emitIdle ==
    /\ eLine = NewLine(<<>>)
    /\ eNum = 0
    /\ eOut = <<>>
    /\ eDone = FALSE

\* New(content, width)
New(content, width) ==
    /\ Content = content
    /\ Width = width
    /\ LineNumbers = FALSE
    /\ Lines = ParseLines(content)
    /\ result = <<>>
    /\ panicked = FALSE
    /\ op = "New"

\* a Model built from the empty content, and none of its functions called
rendererIdle ==
    /\ \E content \in {<<>>} : New(content, 80)
    /\ chroma = "ok"
    /\ colorProfile = "TrueColor"
    /\ wrapIdle
    /\ inlineIdle
    /\ emitIdle

InitParse ==
    /\ \E content \in ParseContents : New(content, 80)
    /\ chroma = "ok"
    /\ colorProfile = "TrueColor"
    /\ wrapIdle
    /\ inlineIdle
    /\ emitIdle
    /\ restIdle

\* m.ParseLines()
DoParseLines ==
    /\ Lines' = ParseLines(Content)
    /\ op' = "ParseLines"
    /\ result' = <<>>
    /\ panicked' = FALSE
    /\ UNCHANGED <<Content, Width, LineNumbers, chroma, colorProfile>>
    /\ UNCHANGED <<wrapVars, inlineVars, emitVars, restVars>>

NextParse == DoParseLines

SpecParse == InitParse /\ [][NextParse]_vars

----------------------------------------------------------------------------
(* The model of a markdown.Model that is rendered *)

Init ==
    /\ \E content \in RenderContents, width \in Widths : New(content, width)
    /\ chroma \in ChromaModes
    /\ colorProfile \in ColorProfiles
    /\ wrapIdle
    /\ inlineIdle
    /\ emitIdle
    /\ restIdle

\* m.SetLineNumbers(show)
SetLineNumbers(show) ==
    /\ LineNumbers' = show
    /\ op' = "SetLineNumbers"
    /\ result' = <<>>
    /\ panicked' = FALSE
    /\ UNCHANGED <<Content, Width, Lines, chroma, colorProfile>>
    /\ UNCHANGED <<wrapVars, inlineVars, emitVars, restVars>>

\* Returned as the end of a render call that writes behind the output of the
\* call before would be
ReturnedAppending(r) ==
    /\ result' = result \o r.result
    /\ panicked' = r.panic

\* a render call ended in the loop state r
Returned(r) ==
    /\ result' = r.result
    /\ panicked' = r.panic

\* m.Render()
DoRender ==
    /\ Returned(Render(Lines, Width, LineNumbers, chroma))
    /\ op' = "Render"
    /\ UNCHANGED <<Content, Width, LineNumbers, Lines, chroma, colorProfile>>
    /\ UNCHANGED <<wrapVars, inlineVars, emitVars, restVars>>

\* m.RenderPreservingAll()
DoRenderPreservingAll ==
    /\ Returned(RenderPreservingAll(Lines, Width, LineNumbers, chroma))
    /\ op' = "RenderPreservingAll"
    /\ UNCHANGED <<Content, Width, LineNumbers, Lines, chroma, colorProfile>>
    /\ UNCHANGED <<wrapVars, inlineVars, emitVars, restVars>>

Next ==
    \/ \E show \in BOOLEAN : SetLineNumbers(show)
    \/ DoRender
    \/ DoRenderPreservingAll

Spec == Init /\ [][Next]_vars

----------------------------------------------------------------------------
(* Properties of the classification, stated on Content and Lines *)

\* the number of newline characters of the content
NumNewlines == Cardinality({i \in 1..Len(Content) : Content[i] = NL})

\* the segments of the content between its newlines
Segs == Split(Content, NL)

\* segment i starts with the fence token
IsFenceSeg(i) == HasPrefix(Segs[i], Fence)

\* segment i lies after an odd number of fence-token lines
InsideFence(i) == Cardinality({k \in 1..(i - 1) : IsFenceSeg(k)}) % 2 = 1

\* the fence-token line that opened the fence segment i lies in
Opener(i) == Max({k \in 1..(i - 1) : IsFenceSeg(k)})

\* the length of the run of '#' segment i starts with
HashRun(seg) ==
    IF \A j \in 1..Len(seg) : seg[j] = "#" THEN Len(seg)
    ELSE Min({j \in 1..Len(seg) : seg[j] # "#"}) - 1

\* the run of '#' of the segment is immediately followed by a space
SpaceAfterHashes(seg) ==
    /\ HashRun(seg) >= 1
    /\ Len(seg) > HashRun(seg)
    /\ seg[HashRun(seg) + 1] = " "

\* C1: ParseLines produces exactly one Line per newline-delimited segment of
\* the content, in the same order: there is one Line more than there are
\* newlines (a final newline yields a trailing empty Line), and the Content of
\* Line i is segment i (for a Header, segment i without its '#' run, trimmed).
C1_OneLinePerSegment ==
    /\ Len(Lines) = NumNewlines + 1
    /\ \A i \in 1..Len(Lines) :
          IF Lines[i].Type = LineTypeHeader
          THEN /\ HasPrefix(Segs[i], <<"#">>)
               /\ Lines[i].Content =
                     TrimSpace(SubSeq(Segs[i], HashRun(Segs[i]) + 1, Len(Segs[i])))
          ELSE Lines[i].Content = Segs[i]

\* a content of several lines that ends in a newline has been classified
C1_Witness ==
    /\ op = "ParseLines"
    /\ Len(Content) > 1
    /\ Content[Len(Content)] = NL
    /\ Len(Lines) = MaxParseLines
    /\ Lines[Len(Lines)].Content = <<>>
    /\ Lines[1].Type = LineTypeHeader

\* C2: every line that starts with the fence token is classified CodeFence,
\* inside a fence or not, never Code; and each such line flips the
\* inside-fence state: a line without the token is Code exactly when an odd
\* number of fence-token lines precede it.
C2_FenceTokenAlwaysMarker ==
    \A i \in 1..Len(Lines) :
        IF IsFenceSeg(i)
        THEN Lines[i].Type = LineTypeCodeFence
        ELSE (Lines[i].Type = LineTypeCode) <=> InsideFence(i)

\* a fence-token line that carries a language closes an open fence, and the
\* line after it is classified outside the fence
C2_Witness ==
    /\ op = "ParseLines"
    /\ Len(Lines) = 3
    /\ Segs[1] = Fence
    /\ Segs[2] = Fence \o <<"g", "o">>
    /\ Lines[2].Type = LineTypeCodeFence
    /\ Lines[3].Type = LineTypeComment

\* C3: every line after an opening fence marker and before the next
\* fence-token line (or the end of the input) is classified Code whatever its
\* content, keeps its content, and carries as CodeLang the text after the
\* token on the opening marker.
C3_CodeInsideFence ==
    \A i \in 1..Len(Lines) :
        (~IsFenceSeg(i) /\ InsideFence(i)) =>
            /\ Lines[i].Type = LineTypeCode
            /\ Lines[i].Content = Segs[i]
            /\ Lines[i].CodeLang = SubSeq(Segs[Opener(i)], Len(Fence) + 1,
                                          Len(Segs[Opener(i)]))

\* a fence opened with a language and never closed, holding a '#' line and a
\* blank line
C3_Witness ==
    /\ op = "ParseLines"
    /\ Len(Lines) = 3
    /\ Segs[1] = Fence \o <<"g", "o">>
    /\ Segs[2] = <<"#", " ", "a", " ">>
    /\ Segs[3] = <<>>
    /\ Lines[2].Type = LineTypeCode
    /\ Lines[3].Type = LineTypeCode
    /\ Lines[3].CodeLang = <<"g", "o">>

\* C4: a line outside a fence is a Header exactly when it starts with a run
\* of k '#', 1 <= k <= 6, immediately followed by a space; then HeaderLevel
\* is k (so it lies in 1..6) and Content is the trimmed remainder.
C4_HeaderIffOneToSixHashes ==
    \A i \in 1..Len(Lines) :
        (~IsFenceSeg(i) /\ ~InsideFence(i)) =>
            /\ (Lines[i].Type = LineTypeHeader) <=>
                   (SpaceAfterHashes(Segs[i]) /\ HashRun(Segs[i]) \in 1..6)
            /\ (Lines[i].Type = LineTypeHeader) =>
                   /\ Lines[i].HeaderLevel = HashRun(Segs[i])
                   /\ Lines[i].HeaderLevel \in 1..6
                   /\ Lines[i].Content =
                         TrimSpace(SubSeq(Segs[i], HashRun(Segs[i]) + 1, Len(Segs[i])))

\* C5: a line outside a fence that starts with '#' and whose run of '#' is
\* not immediately followed by a space (a line of '#' only included) is
\* classified Comment.
C5_MalformedHeaderIsComment ==
    \A i \in 1..Len(Lines) :
        (/\ ~IsFenceSeg(i)
         /\ ~InsideFence(i)
         /\ HasPrefix(Segs[i], <<"#">>)
         /\ ~SpaceAfterHashes(Segs[i])) => Lines[i].Type = LineTypeComment

----------------------------------------------------------------------------
(* Properties of the renderers, stated on Lines and on the lines written *)

\* the visible characters of a text: the text without its escape runs
RECURSIVE VisibleText(_, _, _)
VisibleText(text, i, inEscapeSeq) ==
    IF i > Len(text) THEN <<>>
    ELSE IF inEscapeSeq THEN VisibleText(text, i + 1, text[i] # "m")
    ELSE IF text[i] = ESC THEN VisibleText(text, i + 1, TRUE)
    ELSE <<text[i]>> \o VisibleText(text, i + 1, FALSE)

Visible(text) == VisibleText(text, 1, FALSE)

IsDigit(c) == \E d \in 0..9 : Digit(d) = c

\* the number a sequence of digits reads as
RECURSIVE Atoi(_)
Atoi(ds) ==
    IF ds = <<>> THEN 0
    ELSE 10 * Atoi(SubSeq(ds, 1, Len(ds) - 1))
             + (CHOOSE d \in 0..9 : Digit(d) = ds[Len(ds)])

\* the gutter of a written line: its first four visible columns
Gutter(out) == SubSeq(Visible(out), 1, 4)

\* the written line shows a line number
IsNumbered(out) == \E k \in 1..3 : IsDigit(Gutter(out)[k])

\* the line number a written line shows
ShownNumber(out) == Atoi(SelectSeq(SubSeq(Gutter(out), 1, 3), IsDigit))

\* the written lines that show a number, in the order written
NumberedLines == SelectSeq(result, IsNumbered)

IsMarker(i) == Lines[i].Type = LineTypeCodeFence

\* source line i lies in a fence: an odd number of markers precede it
InBlock(i) == Cardinality({k \in 1..(i - 1) : IsMarker(k)}) % 2 = 1

\* source line i is a code line of a fence that is closed
InClosedBlock(i) ==
    /\ ~IsMarker(i)
    /\ InBlock(i)
    /\ \E k \in (i + 1)..Len(Lines) : IsMarker(k)

\* the source lines Render writes: those outside fences and the code lines
\* of the closed fences
WrittenByRender(i) == ~IsMarker(i) /\ (InBlock(i) => InClosedBlock(i))

\* the source lines RenderPreservingAll writes: the markers too
WrittenByPreserving(i) == IsMarker(i) \/ WrittenByRender(i)

\* C6: in RenderPreservingAll with numbering, every code line of a closed
\* fence is written with its 1-based source line number, so that the numbers
\* shown by the opening marker, the code lines and the closing marker are
\* consecutive and no number is shown twice.
C6_PreservingCodeLineNumbers ==
    (op = "RenderPreservingAll" /\ LineNumbers /\ ~panicked) =>
        /\ \A i \in 1..Len(Lines) :
              InClosedBlock(i) =>
                  LET rank == Cardinality({k \in 1..i : WrittenByPreserving(k)})
                  IN  /\ rank <= Len(NumberedLines)
                      /\ ShownNumber(NumberedLines[rank]) = i
        /\ \A a, b \in 1..Len(NumberedLines) :
              a < b => ShownNumber(NumberedLines[a]) # ShownNumber(NumberedLines[b])

\* C7: in Render with numbering, line j of a closed fence is written with
\* its 1-based source line number: the written line that stands for source
\* line i (the rank of i among the lines Render writes) shows i, whatever
\* the highlighter returns.
C7_RenderCodeLineNumbers ==
    (op = "Render" /\ LineNumbers /\ ~panicked) =>
        \A i \in 1..Len(Lines) :
            InClosedBlock(i) =>
                LET rank == Cardinality({k \in 1..i : WrittenByRender(k)})
                IN  /\ rank <= Len(NumberedLines)
                    /\ ShownNumber(NumberedLines[rank]) = i

\* Render has numbered the two code lines of a closed fence that follows
\* another line
C7_Witness ==
    /\ op = "Render"
    /\ LineNumbers
    /\ Len(Lines) = 4
    /\ Lines[1].Type = LineTypeEmpty
    /\ IsMarker(2)
    /\ Lines[3].Content = <<"a", " ", "b", " ", "c">>
    /\ IsMarker(4)
    /\ Len(result) = 2
    /\ ShownNumber(result[2]) = 3

\* no line is wider than the available width
NoWrapping ==
    \A i \in 1..Len(Lines) :
        estimateVisibleLength(FormatLine(Lines[i])) <= AvailableWidth(Width, LineNumbers)

\* C8: RenderPreservingAll keeps every source line: it writes at least one
\* line for each source Line, and exactly one when nothing is wrapped.
C8_PreservingKeepsEveryLine ==
    (op = "RenderPreservingAll" /\ ~panicked) =>
        /\ Len(result) >= Len(Lines)
        /\ NoWrapping => Len(result) = Len(Lines)

IsExampleRun == Content = Example /\ Width = 80 /\ ~LineNumbers

\* a written line is a fence marker
IsMarkerLine(out) == HasPrefix(Visible(out), Fence)

\* C9 as stated: for the example, width 80, numbering off, Render writes
\* exactly 5 lines, none a fence marker, and RenderPreservingAll exactly 6.
C9_ExampleFiveAndSixLines ==
    IsExampleRun =>
        /\ op = "Render" =>
              /\ Len(result) = 5
              /\ \A k \in 1..Len(result) : ~IsMarkerLine(result[k])
        /\ op = "RenderPreservingAll" => Len(result) = 6

\* C9, amended: for the example, width 80, numbering off, Render writes
\* exactly 6 lines (title, blank, body, blank, one highlighted code line, and
\* a blank line for the empty segment behind the final newline), none a fence
\* marker, and RenderPreservingAll writes exactly 8 lines, the two fence
\* markers among them.
C9_ExampleSixAndEightLines ==
    IsExampleRun =>
        /\ op = "Render" =>
              /\ Len(result) = 6
              /\ \A k \in 1..Len(result) : ~IsMarkerLine(result[k])
              /\ Visible(result[1]) = <<"T", "i", "t", "l", "e">>
              /\ result[2] = <<>>
              /\ Visible(result[3]) =
                     <<"S", "o", "m", "e", " ", "t", "e", "x", "t", ".">>
              /\ result[4] = <<>>
              /\ Visible(result[5]) =
                     <<" ", " ", "p", "r", "i", "n", "t", "(", "1", ")">>
              /\ result[6] = <<>>
        /\ op = "RenderPreservingAll" =>
              /\ Len(result) = 8
              /\ {k \in 1..Len(result) : IsMarkerLine(result[k])} = {5, 7}
              /\ result[8] = <<>>

\* Render has returned for the example
C9_Witness ==
    /\ IsExampleRun
    /\ op = "Render"
    /\ chroma = "ok"
    /\ result # <<>>

\* the number of source lines a renderer writes
NumWrittenByRender == Cardinality({i \in 1..Len(Lines) : WrittenByRender(i)})
NumWrittenByPreserving == Cardinality({i \in 1..Len(Lines) : WrittenByPreserving(i)})

\* C12: with a display width <= 0 the renderer does not wrap: every source
\* line outside a fence yields exactly one written line, whatever its
\* length, so that as many lines are written as there are source lines the
\* renderer writes.
C12_NoWrappingAtWidthZero ==
    (Width <= 0 /\ ~panicked) =>
        /\ op = "Render" => Len(result) = NumWrittenByRender
        /\ op = "RenderPreservingAll" => Len(result) = NumWrittenByPreserving

\* C13: rendering is total: whatever the content, the width (zero and
\* negative included) and the numbering, Render and RenderPreservingAll
\* return: wrappedLines[0] is never read from an empty slice.
C13_RenderingTotal ==
    op \in {"Render", "RenderPreservingAll"} => ~panicked

\* the markers a and b open and close a fence
IsClosedBlock(a, b) ==
    /\ a < b
    /\ IsMarker(a)
    /\ IsMarker(b)
    /\ ~InBlock(a)
    /\ \A k \in (a + 1)..(b - 1) : ~IsMarker(k)

\* the code lines between the markers a and b
CodeBlockOf(a, b) == SubSeq(Lines, a + 1, b - 1)

\* the written lines that show the number n
ShowingNumber(n) ==
    {k \in 1..Len(NumberedLines) : ShownNumber(NumberedLines[k]) = n}

\* C15: highlightCodeBlock returns at least len(block) lines whatever the
\* highlighter returns, and the renderer writes exactly one line for each
\* code line of a closed fence: with numbering, exactly one written line
\* shows the number of the code line, and when nothing is wrapped as many
\* lines are written as there are source lines to write.
C15_OneLinePerCodeLine ==
    (op \in {"Render", "RenderPreservingAll"} /\ ~panicked) =>
        /\ \A a, b \in 1..Len(Lines) :
              IsClosedBlock(a, b) =>
                  Len(highlightCodeBlock(CodeBlockOf(a, b), chroma)) >= b - a - 1
        /\ (op = "Render" /\ LineNumbers) =>
              \A i \in 1..Len(Lines) :
                  InClosedBlock(i) => Cardinality(ShowingNumber(i)) = 1
        /\ (op = "Render" /\ NoWrapping) => Len(result) = NumWrittenByRender
        /\ (op = "RenderPreservingAll" /\ NoWrapping) =>
              Len(result) = NumWrittenByPreserving

\* Render has written the two code lines of a fence for which the
\* highlighter returned a single line
C15_Witness ==
    /\ op = "Render"
    /\ chroma = "short"
    /\ Len(Lines) = 4
    /\ IsMarker(1)
    /\ Lines[2].Content = <<"a", " ", "b", " ", "c">>
    /\ Lines[3].Content = <<>>
    /\ IsMarker(4)
    /\ Len(Split(syntaxHighlightWithChroma(BlockCode(CodeBlockOf(1, 4)), chroma), NL)) = 1
    /\ Len(result) = 2

\* the rank of source line i among the source lines Render writes
RenderRank(i) == Cardinality({k \in 1..i : WrittenByRender(k)})

\* the written line that stands for the code line i of a closed fence: the
\* one that shows its number, or without numbers the one of its rank
WrittenCodeLine(i) ==
    IF LineNumbers THEN NumberedLines[RenderRank(i)] ELSE result[RenderRank(i)]

\* C16: when Tokenise or Format fails, highlighting returns the code as it
\* was given, and Render writes each code line of the fence with its
\* original content behind the two spaces of the indentation, one written
\* line per code line.
C16_HighlighterFailureKeepsCode ==
    (op = "Render" /\ chroma = "err" /\ ~panicked) =>
        \A a, b \in 1..Len(Lines) :
            (IsClosedBlock(a, b) /\ TrimSpace(BlockCode(CodeBlockOf(a, b))) # <<>>) =>
                /\ syntaxHighlightWithChroma(BlockCode(CodeBlockOf(a, b)), chroma)
                       = BlockCode(CodeBlockOf(a, b))
                /\ (LineNumbers \/ NoWrapping) =>
                      \A i \in (a + 1)..(b - 1) :
                          /\ RenderRank(i) <= Len(IF LineNumbers THEN NumberedLines
                                                  ELSE result)
                          /\ WrittenCodeLine(i) =
                                 addLineNumber(LineNumbers, i,
                                               <<" ", " ">> \o Lines[i].Content)
                /\ LineNumbers =>
                      \A i \in (a + 1)..(b - 1) : Cardinality(ShowingNumber(i)) = 1

\* Render has written the two code lines of a fence whose highlighting failed
C16_Witness ==
    /\ op = "Render"
    /\ chroma = "err"
    /\ ~LineNumbers
    /\ Len(Lines) = 4
    /\ IsMarker(1)
    /\ IsMarker(4)
    /\ result = << <<" ", " ", "a", " ", "b", " ", "c">>, <<" ", " ">> >>

BlankGutter == <<" ", " ", " ", " ">>

\* C19: in Render with numbering, each source line outside a fence, at index
\* i from 0, gives exactly one numbered written line, which shows i + 1 (for
\* an Empty line the number and no text); the further lines that wrapping
\* writes for it carry a blank gutter and no number; and the numbers shown
\* are strictly increasing down the output.
C19_RenderNumbering ==
    (op = "Render" /\ LineNumbers /\ ~panicked) =>
        /\ Len(NumberedLines) = NumWrittenByRender
        /\ \A i \in 1..Len(Lines) :
              (WrittenByRender(i) /\ ~InBlock(i)) =>
                  /\ ShownNumber(NumberedLines[RenderRank(i)]) = i
                  /\ Cardinality(ShowingNumber(i)) = 1
                  /\ Lines[i].Type = LineTypeEmpty =>
                         Visible(NumberedLines[RenderRank(i)]) = Sprintf3d(i)
        /\ \A k \in 1..Len(result) :
              ~IsNumbered(result[k]) =>
                  /\ k > 1
                  /\ Gutter(result[k]) = BlankGutter
        /\ \A a, b \in 1..Len(NumberedLines) :
              a < b => ShownNumber(NumberedLines[a]) < ShownNumber(NumberedLines[b])

\* Render has numbered a line that was wrapped and the Empty line behind it
C19_Witness ==
    /\ op = "Render"
    /\ LineNumbers
    /\ Width = 8
    /\ Len(Lines) = 2
    /\ Lines[1].Content = <<"a", " ", "b", " ", "c">>
    /\ Lines[2].Type = LineTypeEmpty
    /\ Len(result) = 3
    /\ ShownNumber(result[1]) = 1
    /\ ~IsNumbered(result[2])
    /\ ShownNumber(result[3]) = 2

IsUnclosedOpener(a) ==
    /\ IsMarker(a)
    /\ ~InBlock(a)
    /\ \A k \in (a + 1)..Len(Lines) : ~IsMarker(k)

----------------------------------------------------------------------------
(* The model of calls of wrapLine *)

InitWrap ==
    /\ New(<<>>, 80)
    /\ chroma = "ok"
    /\ colorProfile = "TrueColor"
    /\ inlineIdle
    /\ emitIdle
    /\ restIdle
    /\ wLine \in WrapLines
    /\ wWidth \in WrapWidths
    /\ wOut = <<>>
    /\ wDone = FALSE

\* m.wrapLine(line, width)
DoWrapLine ==
    /\ ~wDone
    /\ wOut' = wrapLine(wLine, wWidth)
    /\ wDone' = TRUE
    /\ UNCHANGED <<wLine, wWidth>>
    /\ UNCHANGED <<modelVars, inlineVars, emitVars, restVars>>

NextWrap == DoWrapLine

SpecWrap == InitWrap /\ [][NextWrap]_vars

HasSpace(text) == \E i \in 1..Len(text) : text[i] = " "

\* p is a suffix of s
HasSuffix(s, p) ==
    Len(s) >= Len(p) /\ SubSeq(s, Len(s) - Len(p) + 1, Len(s)) = p

\* the returned line holds a single word, one whose own visible length
\* exceeds the width: it has no space and ends with such a word of the input
SingleWideWord(out, line, width) ==
    /\ ~HasSpace(out)
    /\ \E k \in 1..Len(Split(line, " ")) :
          /\ estimateVisibleLength(Split(line, " ")[k]) > width
          /\ HasSuffix(out, Split(line, " ")[k])

\* C10: for every line and width >= 1, every line wrapLine returns has a
\* visible length (estimateVisibleLength of the whole returned line) of at
\* most width, except a line that holds a single word whose own visible
\* length exceeds width.
C10_WrappedLinesFit ==
    (wDone /\ wWidth >= 1) =>
        \A k \in 1..Len(wOut) :
            \/ estimateVisibleLength(wOut[k]) <= wWidth
            \/ SingleWideWord(wOut[k], wLine, wWidth)

\* wrapLine has returned a line that fits and a line that holds a word
\* wider than the width
C10_Witness ==
    /\ wDone
    /\ wWidth = 2
    /\ wLine = <<"a", " ", "a", "a", "a">>
    /\ wOut = << <<"a">>, <<"a", "a", "a">> >>

\* every ESC of the text is followed, later in the text, by an 'm'
EscapesClosed(text) ==
    \A i \in 1..Len(text) :
        text[i] = ESC => \E j \in (i + 1)..Len(text) : text[j] = "m"

\* C11: wrapping never splits an escape run: when every ESC of the line is
\* followed later by an 'm', no line wrapLine returns holds an ESC that has
\* no 'm' behind it in that same returned line.
C11_NoEscapeRunSplit ==
    (wDone /\ EscapesClosed(wLine)) =>
        \A k \in 1..Len(wOut) : EscapesClosed(wOut[k])

\* C14: wrapping is idempotent on its first result: when wrapLine(s, w) is
\* not empty, wrapLine of its first line, with the same width, returns that
\* line alone.
C14_WrapIdempotentOnFirst ==
    (wDone /\ Len(wOut) > 0) => wrapLine(wOut[1], wWidth) = <<wOut[1]>>

\* wrapLine has split a line, and its first line holds two words
C14_Witness ==
    /\ wDone
    /\ wWidth = 3
    /\ wLine = <<"a", " ", "a", " ", "a">>
    /\ wOut = << <<"a", " ", "a">>, <<"a">> >>

\* the text without its space characters
RECURSIVE Concat(_)
Concat(ls) == IF ls = <<>> THEN <<>> ELSE ls[1] \o Concat(Tail(ls))

IsNotBlank(c) == c # " "

NoSpaces(text) == SelectSeq(text, IsNotBlank)

\* the text without the spaces it starts and ends with
TrimBlanks(text) ==
    IF NoSpaces(text) = <<>> THEN <<>>
    ELSE SubSeq(text, Min({i \in 1..Len(text) : text[i] # " "}),
                Max({i \in 1..Len(text) : text[i] # " "}))

\* C29 as stated: wrapLine drops nothing but spaces, and only leading and
\* trailing spaces and spaces at a break: the returned lines put together
\* are the line, spaces apart, and when a single line is returned (no
\* break) it is the line up to its leading and trailing spaces.
C29_OnlyEdgeSpacesDropped ==
    wDone =>
        /\ NoSpaces(Concat(wOut)) = NoSpaces(wLine)
        /\ Len(wOut) = 1 => TrimBlanks(wOut[1]) = TrimBlanks(wLine)

\* the first word of the line has a visible character
FirstWordVisible(line) == estimateVisibleLength(Split(line, " ")[1]) > 0

\* C29, amended: wrapLine drops nothing but spaces: the returned lines put
\* together are the line, spaces apart (so the words keep their order); when
\* a single line is returned for a line whose first word has a visible
\* character, that line is the input up to trailing spaces.  (The spaces
\* before the first word with a visible character are dropped too: such
\* words are put together without a space.)
C29_OnlySpacesDropped ==
    wDone =>
        /\ NoSpaces(Concat(wOut)) = NoSpaces(wLine)
        /\ (Len(wOut) = 1 /\ FirstWordVisible(wLine)) =>
              /\ HasPrefix(wLine, wOut[1])
              /\ \A i \in (Len(wOut[1]) + 1)..Len(wLine) : wLine[i] = " "

\* wrapLine has returned two lines for a line with repeated spaces at the
\* break
C29_Witness ==
    /\ wDone
    /\ wWidth = 1
    /\ wLine = <<" ", "a", " ", " ", "a">>
    /\ wOut = << <<"a">>, <<"a">> >>

----------------------------------------------------------------------------
(* The model of calls of applyInlineFormatting *)

\* the characters of the texts: a letter and the characters of the markers
InlineAlphabet == {"a", "*", "_", BQ}

\* "**bold** and *italic*"
BoldAndItalic ==
    <<"*", "*", "b", "o", "l", "d", "*", "*", " ", "a", "n", "d", " ",
      "*", "i", "t", "a", "l", "i", "c", "*">>

\* the link [a](url)
LinkTo(url) == <<"[", "a", "]", "(">> \o url \o <<")">>

Urls == UNION {[1..n -> InlineAlphabet] : n \in 1..MaxUrlLen}

InlineTexts ==
    UNION {[1..n -> InlineAlphabet] : n \in 0..MaxInlineLen}
        \cup {LinkTo(url) : url \in Urls}
        \cup {BoldAndItalic}

InitInline ==
    /\ New(<<>>, 80)
    /\ chroma = "ok"
    /\ colorProfile \in ColorProfiles
    /\ wrapIdle
    /\ emitIdle
    /\ restIdle
    /\ fText \in InlineTexts
    /\ fOut = <<>>
    /\ fDone = FALSE

\* m.applyInlineFormatting(text)
DoApplyInlineFormatting ==
    /\ ~fDone
    /\ fOut' = applyInlineFormatting(fText)
    /\ fDone' = TRUE
    /\ UNCHANGED fText
    /\ UNCHANGED <<modelVars, wrapVars, emitVars, restVars>>

NextInline == DoApplyInlineFormatting

SpecInline == InitInline /\ [][NextInline]_vars

\* a text of letters only, not empty
IsWord(x) == Len(x) > 0 /\ \A i \in 1..Len(x) : x[i] = "a"

\* the text is x between the delimiter d, x a word
Delimited(text, d) ==
    /\ Len(text) > 2 * Len(d)
    /\ HasPrefix(text, d)
    /\ HasSuffix(text, d)
    /\ IsWord(SubSeq(text, Len(d) + 1, Len(text) - Len(d)))

Inner(text, d) == SubSeq(text, Len(d) + 1, Len(text) - Len(d))

\* C17: applyInlineFormatting runs its passes over the whole line in the
\* order link, bold **, bold __, italic *, italic _, inline code: a word
\* between ** or __ comes out bold (never as italics of the inner
\* delimiters), a word between * or _ italic, a word between backquotes as
\* inline code; and "**bold** and *italic*" yields the bold-styled "bold",
\* the literal " and " and the italic-styled "italic", no delimiter left.
C17_InlinePassesInOrder ==
    fDone =>
        /\ Delimited(fText, <<"*", "*">>) =>
              fOut = StyleRender("text;bold", Inner(fText, <<"*", "*">>))
        /\ Delimited(fText, <<"_", "_">>) =>
              fOut = StyleRender("text;bold", Inner(fText, <<"_", "_">>))
        /\ Delimited(fText, <<"*">>) =>
              fOut = StyleRender("text;italic", Inner(fText, <<"*">>))
        /\ Delimited(fText, <<"_">>) =>
              fOut = StyleRender("text;italic", Inner(fText, <<"_">>))
        /\ Delimited(fText, <<BQ>>) =>
              fOut = StyleRender("accent", Inner(fText, <<BQ>>))
        /\ fText = BoldAndItalic =>
              /\ fOut = StyleRender("text;bold", <<"b", "o", "l", "d">>)
                           \o <<" ", "a", "n", "d", " ">>
                           \o StyleRender("text;italic",
                                          <<"i", "t", "a", "l", "i", "c">>)
              /\ Visible(fOut) = <<"b", "o", "l", "d", " ", "a", "n", "d", " ",
                                   "i", "t", "a", "l", "i", "c">>

\* applyInlineFormatting has returned for "**bold** and *italic*" on a
\* terminal with colours
C17_Witness ==
    /\ fDone
    /\ fText = BoldAndItalic
    /\ colorProfile = "TrueColor"
    /\ Len(fOut) > Len(Visible(fOut))

\* C18: for a link [label](url) the result is the styled label followed by
\* the styled "(url)" with the characters of the url unchanged, also when
\* the url holds '*', '_' or backquote characters.
C18_LinkUrlUnchanged ==
    fDone =>
        \A url \in Urls :
            fText = LinkTo(url) =>
                fOut = StyleRender("info;bold", <<"a">>) \o <<" ">>
                           \o StyleRender("info", <<"(">> \o url \o <<")">>)

----------------------------------------------------------------------------
(* The model of one iteration of the loop of Render, on a line outside a   *)
(* fence that stands at any index of m.Lines                               *)

\* the texts of the lines: words of the letter a, spaces, emphasis markers
EmitTexts == UNION {[1..n -> {"a", " ", "*"}] : n \in 1..MaxEmitLen}

\* the lines: each text as it is, and as the text of a header of level 1
EmitLines ==
    {ParseLines(t)[1] : t \in EmitTexts}
        \cup {ParseLines(<<"#", " ">> \o t)[1] : t \in EmitTexts}

\* the line numbers: those where the decimal number gets a digit more
LineNums == {1, 999, 1000, 9999, 10000}

EmitWidths == {0, 6, 8, 80}

\* a Model after New and SetLineNumbers, of which one line is looked at
InitEmit ==
    /\ Content = <<>>
    /\ Width \in EmitWidths
    /\ LineNumbers \in BOOLEAN
    /\ Lines = ParseLines(<<>>)
    /\ result = <<>>
    /\ panicked = FALSE
    /\ op = "SetLineNumbers"
    /\ chroma = "ok"
    /\ colorProfile \in ColorProfiles
    /\ wrapIdle
    /\ inlineIdle
    /\ restIdle
    /\ eLine \in EmitLines
    /\ eNum \in LineNums
    /\ eOut = <<>>
    /\ eDone = FALSE

\* the iteration of the loop of Render on eLine, at index eNum - 1
DoRenderLine ==
    /\ ~eDone
    /\ eOut' = RenderLine(RenderStart, eLine, eNum - 1, Width, LineNumbers, chroma).result
    /\ panicked' = RenderLine(RenderStart, eLine, eNum - 1, Width, LineNumbers, chroma).panic
    /\ eDone' = TRUE
    /\ UNCHANGED <<eLine, eNum>>
    /\ UNCHANGED <<Content, Width, LineNumbers, Lines, chroma, colorProfile, result, op>>
    /\ UNCHANGED <<wrapVars, inlineVars, restVars>>

NextEmit == DoRenderLine

SpecEmit == InitEmit /\ [][NextEmit]_vars

\* the text of the written line k of the iteration: the line without the
\* number, or the blank gutter, put before it
EmitText(k) ==
    IF ~LineNumbers THEN eOut[k]
    ELSE SubSeq(eOut[k],
                1 + Len(IF k = 1 THEN addLineNumber(TRUE, eNum, <<>>)
                        ELSE StyleRender("subtext0", BlankGutter)),
                Len(eOut[k]))

\* C20: a Normal or Header line is wrapped exactly when the visible length
\* of its styled text exceeds the usable width (Width, or Width - 5 with
\* numbering): a line that fits is written as one line, more than one line
\* is written only for a line that does not fit; and with numbering the
\* visible width of every line written for it, the gutter included, is at
\* most Width, whatever the line number, unless the line holds a single
\* word that alone is wider than the usable width.
C20_WrappedToUsableWidth ==
    (eDone /\ ~panicked /\ eLine.Type \in {LineTypeNormal, LineTypeHeader}) =>
        /\ estimateVisibleLength(FormatLine(eLine)) <= AvailableWidth(Width, LineNumbers)
              => eOut = <<addLineNumber(LineNumbers, eNum, FormatLine(eLine))>>
        /\ Len(eOut) > 1 =>
              estimateVisibleLength(FormatLine(eLine)) > AvailableWidth(Width, LineNumbers)
        /\ LineNumbers =>
              \A k \in 1..Len(eOut) :
                  \/ estimateVisibleLength(eOut[k]) <= Width
                  \/ SingleWideWord(EmitText(k), FormatLine(eLine),
                                    AvailableWidth(Width, LineNumbers))

----------------------------------------------------------------------------
(* The style registry of chroma and the callers that write it: New,        *)
(* RegisterCatppuccinStyles and SetCatppuccinTheme run in several callers, *)
(* a step of a caller being one access of styles.Registry.                 *)

MaxThemeCalls == 4

ThemeModes == {"dark", "light", "auto"}

\* styles.Get(name) # nil, as the callers test it
StyleRegistered(name) == name \in registry

InitTheme ==
    /\ registry = {}
    /\ regWrites = 0
    /\ callersIdle
    /\ rendererIdle
    /\ hardIdle
    /\ copyIdle
    /\ cmdIdle
    /\ storeIdle

\* caller p enters New(content, width): RegisterCatppuccinStyles() first
CallNew(p) ==
    /\ tpc[p] = "idle"
    /\ tCalls < MaxThemeCalls
    /\ tCalls' = tCalls + 1
    /\ tfn' = [tfn EXCEPT ![p] = "New"]
    /\ tpc' = [tpc EXCEPT ![p] = "mocha"]
    /\ UNCHANGED <<registry, regWrites, tmode, mStyle, mTerminalTheme>>
    /\ UNCHANGED notThemeVars

\* caller p enters RegisterCatppuccinStyles()
CallRegisterCatppuccinStyles(p) ==
    /\ tpc[p] = "idle"
    /\ tCalls < MaxThemeCalls
    /\ tCalls' = tCalls + 1
    /\ tfn' = [tfn EXCEPT ![p] = "RegisterCatppuccinStyles"]
    /\ tpc' = [tpc EXCEPT ![p] = "mocha"]
    /\ UNCHANGED <<registry, regWrites, tmode, mStyle, mTerminalTheme>>
    /\ UNCHANGED notThemeVars

\* caller p enters m.SetCatppuccinTheme(mode) on its model and reads the
\* registry: the styles are registered when "catppuccin-mocha" is not there
CallSetCatppuccinTheme(p, mode) ==
    /\ tpc[p] = "idle"
    /\ mStyle[p] # "none"
    /\ tCalls < MaxThemeCalls
    /\ tCalls' = tCalls + 1
    /\ tfn' = [tfn EXCEPT ![p] = "SetCatppuccinTheme"]
    /\ tmode' = [tmode EXCEPT ![p] = mode]
    /\ tpc' = [tpc EXCEPT ![p] =
                  IF StyleRegistered("catppuccin-mocha") THEN "set" ELSE "mocha"]
    /\ UNCHANGED <<registry, regWrites, mStyle, mTerminalTheme>>
    /\ UNCHANGED notThemeVars

\* where RegisterCatppuccinStyles returns to
AfterRegister(fn) ==
    IF fn = "New" THEN "build"
    ELSE IF fn = "SetCatppuccinTheme" THEN "set"
    ELSE "idle"

\* styles.Register(chroma.MustNewStyle(name, ...)): one write of the registry
StylesRegister(p) ==
    /\ tpc[p] \in {"mocha", "latte"}
    /\ registry' = registry \cup {"catppuccin-" \o tpc[p]}
    /\ regWrites' = regWrites + 1
    /\ tpc' = [tpc EXCEPT ![p] =
                  IF tpc[p] = "mocha" THEN "latte" ELSE AfterRegister(tfn[p])]
    /\ UNCHANGED <<tCalls, tfn, tmode, mStyle, mTerminalTheme>>
    /\ UNCHANGED notThemeVars

\* the rest of New: the Model literal and the fallback to "monokai"
BuildModel(p) ==
    /\ tpc[p] = "build"
    /\ mStyle' = [mStyle EXCEPT ![p] =
                     IF StyleRegistered("catppuccin-mocha")
                     THEN "catppuccin-mocha" ELSE "monokai"]
    /\ mTerminalTheme' = [mTerminalTheme EXCEPT ![p] = "dark"]
    /\ tpc' = [tpc EXCEPT ![p] = "idle"]
    /\ UNCHANGED <<registry, regWrites, tCalls, tfn, tmode>>
    /\ UNCHANGED notThemeVars

\* m.SetStyle(styleName)
SetStyle(style, styleName) ==
    IF StyleRegistered(styleName) THEN styleName ELSE style

\* m.SetTerminalTheme(theme)
SetTerminalTheme(old, theme) ==
    IF theme \in {"dark", "light"} THEN theme ELSE old

\* the rest of SetCatppuccinTheme: the style and the theme of the mode
SetTheme(p) ==
    /\ tpc[p] = "set"
    /\ mStyle' = [mStyle EXCEPT ![p] =
           IF tmode[p] = "dark" THEN SetStyle(mStyle[p], "catppuccin-mocha")
           ELSE IF tmode[p] = "light" THEN SetStyle(mStyle[p], "catppuccin-latte")
           ELSE mStyle[p]]
    /\ mTerminalTheme' = [mTerminalTheme EXCEPT ![p] =
           IF tmode[p] \in {"dark", "light"}
           THEN SetTerminalTheme(mTerminalTheme[p], tmode[p])
           ELSE mTerminalTheme[p]]
    /\ tpc' = [tpc EXCEPT ![p] = "idle"]
    /\ UNCHANGED <<registry, regWrites, tCalls, tfn, tmode>>
    /\ UNCHANGED notThemeVars

NextTheme ==
    \E p \in Callers :
        \/ CallNew(p)
        \/ CallRegisterCatppuccinStyles(p)
        \/ \E mode \in ThemeModes : CallSetCatppuccinTheme(p, mode)
        \/ StylesRegister(p)
        \/ BuildModel(p)
        \/ SetTheme(p)

SpecTheme == InitTheme /\ [][NextTheme]_vars

\* the Catppuccin styles are registered
CatppuccinRegistered == CatppuccinStyles \subseteq registry

\* C22: once the Catppuccin styles are registered, no step of a call of New,
\* RegisterCatppuccinStyles or SetCatppuccinTheme, in whatever caller, writes
\* the shared style registry
C22_NoWriteOnceRegistered ==
    [][CatppuccinRegistered => regWrites' = regWrites]_vars

----------------------------------------------------------------------------
(* The hard-break wrapLine of the earlier renderer (unnamed/part_000),     *)
(* one step for each iteration of its loop.                                *)

MaxHardLen == 4
MaxHardChunks == 5

HardAlphabet == {"a", " ", "."}
HardLines == UNION {[1..n -> HardAlphabet] : n \in 0..MaxHardLen}

\* m.Width of the models: availableWidth := m.Width - 5
HardModelWidths == 3..9

\* the characters a line is broken after
BreakChars == {" ", "\t", "-", ",", ".", ":", ";", "!", "?", ")"}

\* the inner loop: breakPoint goes down to a break character or to 0
RECURSIVE BreakPointFrom(_, _)
BreakPointFrom(remaining, breakPoint) ==
    IF breakPoint > 0 /\ remaining[breakPoint] \notin BreakChars
    THEN BreakPointFrom(remaining, breakPoint - 1)
    ELSE breakPoint

\* breakPoint of an iteration: forced to width when none is found
BreakPoint(remaining, width) ==
    IF BreakPointFrom(remaining, width) = 0
    THEN width
    ELSE BreakPointFrom(remaining, width)

\* Render wraps a formatted line that is not empty
InitHard ==
    /\ hLine \in HardLines
    /\ Len(hLine) > 0
    /\ \E width \in HardModelWidths : hWidth = width - 5
    /\ hRemaining = <<>>
    /\ hWrapped = <<>>
    /\ hpc = "call"
    /\ rendererIdle
    /\ themeIdle
    /\ copyIdle
    /\ cmdIdle
    /\ storeIdle

\* m.wrapLine(line, width) up to its loop
HardEnter ==
    /\ hpc = "call"
    /\ IF Len(hLine) <= hWidth
       THEN /\ hWrapped' = <<hLine>>
            /\ hpc' = "done"
            /\ UNCHANGED hRemaining
       ELSE /\ hWrapped' = <<>>
            /\ hRemaining' = hLine
            /\ hpc' = "loop"
    /\ UNCHANGED <<hLine, hWidth>>
    /\ UNCHANGED notHardVars

\* one iteration of for len(remainingLine) > width; slicing at a negative
\* breakPoint is a runtime panic
HardIterate ==
    /\ hpc = "loop"
    /\ Len(hRemaining) > hWidth
    /\ Len(hWrapped) < MaxHardChunks
    /\ IF BreakPoint(hRemaining, hWidth) < 0
       THEN /\ hpc' = "panic"
            /\ UNCHANGED <<hRemaining, hWrapped>>
       ELSE /\ hWrapped' = Append(hWrapped,
                   SubSeq(hRemaining, 1, BreakPoint(hRemaining, hWidth)))
            /\ hRemaining' = SubSeq(hRemaining,
                   BreakPoint(hRemaining, hWidth) + 1, Len(hRemaining))
            /\ UNCHANGED hpc
    /\ UNCHANGED <<hLine, hWidth>>
    /\ UNCHANGED notHardVars

\* the end of the loop: the rest of the line, and the return
HardReturn ==
    /\ hpc = "loop"
    /\ Len(hRemaining) <= hWidth
    /\ hWrapped' = IF Len(hRemaining) > 0
                       THEN Append(hWrapped, hRemaining)
                       ELSE hWrapped
    /\ hpc' = "done"
    /\ UNCHANGED <<hLine, hWidth, hRemaining>>
    /\ UNCHANGED notHardVars

NextHard ==
    \/ HardEnter
    \/ HardIterate
    \/ HardReturn

SpecHard == InitHard /\ [][NextHard]_vars

\* C27: each iteration of the loop of the hard-break wrapLine removes at
\* least one character from the remaining text (so the call terminates), for
\* every line and every width Width - 5 the renderer passes
C27_EachIterationShortens ==
    [][(hpc = "loop" /\ Len(hRemaining) > hWidth)
           => Len(hRemaining') < Len(hRemaining)]_vars

----------------------------------------------------------------------------
(* Store.CopyLines (note/note.go): the lines start..end of a content are   *)
(* written to the clipboard.                                                *)

MaxCopyLen == 3
MaxInt32 == 2147483647

CopyAlphabet == {"a", "b", NL}
CopyContents == UNION {[1..n -> CopyAlphabet] : n \in 0..MaxCopyLen}
CopyStarts == (-1)..(MaxCopyLen + 2)
CopyEnds == CopyStarts \cup {MaxInt32}

\* what a call returns, and what it writes to the clipboard
CopyResult(count, err, text, written) ==
    [count |-> count, err |-> err, text |-> text, written |-> written]

\* the same without the clamping of end to the number of lines
CopyLinesUnclamped(content, start, end, clipOK) ==
    LET lines == Split(content, NL)
    IN  IF start - 1 < 0 \/ start - 1 >= Len(lines)
        THEN CopyResult(0, "start", <<>>, FALSE)
        ELSE IF end - 1 < 0 \/ end - 1 >= Len(lines)
        THEN CopyResult(0, "end", <<>>, FALSE)
        ELSE IF start > end
        THEN CopyResult(0, "range", <<>>, FALSE)
        ELSE IF ~clipOK
        THEN CopyResult(0, "clipboard", <<>>, FALSE)
        ELSE CopyResult(end - start + 1, "nil",
                        Join(SubSeq(lines, start, end), NL), TRUE)

\* the checks of CopyLines once end is clamped, start and end still 1-based
CopyClamped(lines, start, end, clipOK) ==
    IF Len(lines) = 0
    THEN CopyResult(0, "nil", <<>>, FALSE)
    ELSE IF start - 1 < 0 \/ start - 1 >= Len(lines)
    THEN CopyResult(0, "start", <<>>, FALSE)
    ELSE IF end - 1 < 0 \/ end - 1 >= Len(lines)
    THEN CopyResult(0, "end", <<>>, FALSE)
    ELSE IF start - 1 > end - 1
    THEN CopyResult(0, "range", <<>>, FALSE)
    ELSE IF ~clipOK
    THEN CopyResult(0, "clipboard", <<>>, FALSE)
    ELSE CopyResult((end - 1) - (start - 1) + 1, "nil",
                    Join(SubSeq(lines, start, end), NL), TRUE)

\* s.CopyLines(content, start, end)
CopyLines(content, start, end, clipOK) ==
    CopyClamped(Split(content, NL), start,
                IF end = MaxInt32 \/ end > Len(Split(content, NL))
                THEN Len(Split(content, NL)) ELSE end,
                clipOK)

InitCopy ==
    /\ cContent \in CopyContents
    /\ cStart \in CopyStarts
    /\ cEnd \in CopyEnds
    /\ clipFails \in BOOLEAN
    /\ clipboard = ClipboardBefore
    /\ cCount = 0
    /\ cErr = "nil"
    /\ cDone = FALSE
    /\ rendererIdle
    /\ themeIdle
    /\ hardIdle
    /\ cmdIdle
    /\ storeIdle

CopyReturned(r) ==
    /\ cCount' = r.count
    /\ cErr' = r.err
    /\ clipboard' = IF r.written THEN r.text ELSE clipboard
    /\ cDone' = TRUE

DoCopyLines ==
    /\ ~cDone
    /\ CopyReturned(CopyLines(cContent, cStart, cEnd, ~clipFails))
    /\ UNCHANGED <<cContent, cStart, cEnd, clipFails>>
    /\ UNCHANGED notCopyVars

NextCopy == DoCopyLines

SpecCopy == InitCopy /\ [][NextCopy]_vars

\* the number of lines of a content
NumLinesOf(content) == Cardinality({i \in 1..Len(content) : content[i] = NL}) + 1

\* the character of content at which its k-th line starts
LineStart(content, k) ==
    IF k = 1 THEN 1
    ELSE 1 + CHOOSE i \in 1..Len(content) :
                 /\ content[i] = NL
                 /\ Cardinality({j \in 1..i : content[j] = NL}) = k - 1

\* the lines a..b of content with the newlines between them
LinesOf(content, a, b) ==
    SubSeq(content, LineStart(content, a),
           IF b = NumLinesOf(content) THEN Len(content)
           ELSE LineStart(content, b + 1) - 2)

\* C24: CopyLines on a content of n lines succeeds exactly when
\* 1 <= start <= min(end, n): it puts the lines start..min(end, n), joined
\* by newlines, on the clipboard and returns their count (a failure of the
\* clipboard is returned as an error); otherwise it returns an error and
\* leaves the clipboard alone
C24_CopyLinesRange ==
    cDone =>
        IF 1 <= cStart /\ cStart <= Min({cEnd, NumLinesOf(cContent)})
        THEN IF clipFails
             THEN cErr # "nil" /\ cCount = 0 /\ clipboard = ClipboardBefore
             ELSE /\ cErr = "nil"
                  /\ cCount = Min({cEnd, NumLinesOf(cContent)}) - cStart + 1
                  /\ clipboard = LinesOf(cContent, cStart,
                                         Min({cEnd, NumLinesOf(cContent)}))
        ELSE cErr # "nil" /\ cCount = 0 /\ clipboard = ClipboardBefore

\* lines 2..3 of three are copied when the end is MaxInt32
C24_Witness ==
    /\ cDone
    /\ cContent = <<NL, "a", NL>>
    /\ cStart = 2
    /\ cEnd = MaxInt32
    /\ cCount = 2
    /\ clipboard = <<"a", NL>>

----------------------------------------------------------------------------
(* ParseCopyLinesCommand (note/note.go): the line range of a "co" command. *)
(* An int is the int of a 32-bit build of the program; on a 64-bit build   *)
(* the same happens at 2^63.                                               *)

MaxInt == MaxInt32
MinInt == (-MaxInt32) - 1

\* a + b and a - b of two ints, wrapping around
IntAdd(a, b) ==
    IF b > 0 /\ a > MaxInt - b THEN MinInt + ((a - (MaxInt - b)) - 1)
    ELSE IF b < 0 /\ a < MinInt - b THEN MaxInt - (((MinInt - b) - a) - 1)
    ELSE a + b

IntSub(a, b) ==
    IF b < 0 /\ a > MaxInt + b THEN MinInt + ((a - (MaxInt + b)) - 1)
    ELSE IF b > 0 /\ a < MinInt + b THEN MaxInt - (((MinInt + b) - a) - 1)
    ELSE a - b

DigitChars == {Digit(d) : d \in 0..9}
DigitValue(c) == CHOOSE d \in 0..9 : Digit(d) = c

\* \s of Go's regexp
SpaceChars == {" ", "\t", NL, "\f", "\r"}

\* the end of the longest run of characters of a class that starts at i
RunEnd(s, i, class) ==
    Min({j \in i..(Len(s) + 1) : j = Len(s) + 1 \/ s[j] \notin class})

\* the digits of a number text without its leading zeros
RECURSIVE StripZeros(_)
StripZeros(ds) ==
    IF Len(ds) > 1 /\ Head(ds) = "0" THEN StripZeros(Tail(ds)) ELSE ds

\* the value of a run of digits, -1 when it is above MaxInt
RECURSIVE DigitsValue(_, _)
DigitsValue(ds, acc) ==
    IF ds = <<>> THEN acc
    ELSE IF acc > (MaxInt - DigitValue(Head(ds))) \div 10 THEN -1
    ELSE DigitsValue(Tail(ds), 10 * acc + DigitValue(Head(ds)))

\* strconv.Atoi of a text the regular expressions let through: -?\d+
StrconvAtoi(text) ==
    IF Head(text) = "-"
    THEN IF StripZeros(Tail(text)) = Itoa(MaxInt \div 10) \o <<"8">>
         THEN [ok |-> TRUE, v |-> MinInt]
         ELSE IF DigitsValue(Tail(text), 0) = -1
         THEN [ok |-> FALSE, v |-> 0]
         ELSE [ok |-> TRUE, v |-> 0 - DigitsValue(Tail(text), 0)]
    ELSE IF DigitsValue(text, 0) = -1
         THEN [ok |-> FALSE, v |-> 0]
         ELSE [ok |-> TRUE, v |-> DigitsValue(text, 0)]

NoMatch == <<>>

\* ^co\s+(\d+)(?:\s+(\d+))?$ : the submatches, from the end of the first \s+
BasicSecond(cmd, first, j3) ==
    IF j3 <= Len(cmd) /\ RunEnd(cmd, j3, DigitChars) = Len(cmd) + 1
    THEN <<cmd, first, SubSeq(cmd, j3, Len(cmd))>>
    ELSE NoMatch

BasicFirst(cmd, j1, j2) ==
    IF j2 = j1 THEN NoMatch
    ELSE IF j2 = Len(cmd) + 1 THEN <<cmd, SubSeq(cmd, j1, j2 - 1), <<>>>>
    ELSE IF RunEnd(cmd, j2, SpaceChars) = j2 THEN NoMatch
    ELSE BasicSecond(cmd, SubSeq(cmd, j1, j2 - 1), RunEnd(cmd, j2, SpaceChars))

AfterCo(cmd) == RunEnd(cmd, 3, SpaceChars)

copyBasicRe(cmd) ==
    IF ~HasPrefix(cmd, <<"c", "o">>) \/ AfterCo(cmd) = 3 THEN NoMatch
    ELSE BasicFirst(cmd, AfterCo(cmd), RunEnd(cmd, AfterCo(cmd), DigitChars))

\* ^co\s+(\d+)\s+([<>])\s+(-?\d+)$
RelativeOffset(cmd, base, o, j5) ==
    IF j5 > Len(cmd) THEN NoMatch
    ELSE IF cmd[j5] = "-"
    THEN IF j5 + 1 <= Len(cmd)
            /\ RunEnd(cmd, j5 + 1, DigitChars) = Len(cmd) + 1
         THEN <<cmd, base, o, SubSeq(cmd, j5, Len(cmd))>>
         ELSE NoMatch
    ELSE IF RunEnd(cmd, j5, DigitChars) = Len(cmd) + 1
         THEN <<cmd, base, o, SubSeq(cmd, j5, Len(cmd))>>
         ELSE NoMatch

RelativeOp(cmd, base, j3) ==
    IF j3 > Len(cmd) \/ cmd[Min({j3, Len(cmd)})] \notin {"<", ">"} THEN NoMatch
    ELSE IF RunEnd(cmd, j3 + 1, SpaceChars) = j3 + 1 THEN NoMatch
    ELSE RelativeOffset(cmd, base, cmd[j3], RunEnd(cmd, j3 + 1, SpaceChars))

RelativeBase(cmd, j1, j2) ==
    IF j2 = j1 \/ RunEnd(cmd, j2, SpaceChars) = j2 THEN NoMatch
    ELSE RelativeOp(cmd, SubSeq(cmd, j1, j2 - 1), RunEnd(cmd, j2, SpaceChars))

copyRelativeRe(cmd) ==
    IF ~HasPrefix(cmd, <<"c", "o">>) \/ AfterCo(cmd) = 3 THEN NoMatch
    ELSE RelativeBase(cmd, AfterCo(cmd), RunEnd(cmd, AfterCo(cmd), DigitChars))

Parsed(start, end, err) == [start |-> start, end |-> end, err |-> err]

\* the branch of the basic pattern
ParseBasic(start, matches) ==
    IF ~start.ok THEN Parsed(0, 0, "start")
    ELSE IF matches[3] = <<>> THEN Parsed(start.v, start.v, "nil")
    ELSE IF ~StrconvAtoi(matches[3]).ok THEN Parsed(0, 0, "end")
    ELSE Parsed(start.v, StrconvAtoi(matches[3]).v, "nil")

\* the branch of the relative pattern
ParseRelative(base, o, offset) ==
    IF ~base.ok THEN Parsed(0, 0, "base")
    ELSE IF ~offset.ok THEN Parsed(0, 0, "offset")
    ELSE IF o = ">"
    THEN Parsed(base.v,
                IF offset.v = -1 THEN MaxInt32 ELSE IntAdd(base.v, offset.v),
                "nil")
    ELSE Parsed(IF offset.v = -1 THEN 1
                ELSE Max({1, IntSub(base.v, offset.v)}),
                base.v, "nil")

\* ParseCopyLinesCommand(cmd)
ParseCopyLinesCommand(cmd) ==
    IF Len(copyBasicRe(cmd)) >= 2
    THEN ParseBasic(StrconvAtoi(copyBasicRe(cmd)[2]), copyBasicRe(cmd))
    ELSE IF Len(copyRelativeRe(cmd)) = 4
    THEN ParseRelative(StrconvAtoi(copyRelativeRe(cmd)[2]), copyRelativeRe(cmd)[3],
                       StrconvAtoi(copyRelativeRe(cmd)[4]))
    ELSE Parsed(0, 0, "format")

\* the numbers and offsets of the commands
CmdNumbers == {0, 1, 5, 20, MaxInt}
CmdOffsets == {0, 1, 2, MaxInt}
Minus(k) == <<"-">> \o Itoa(k)
NumTexts == {Itoa(n) : n \in CmdNumbers}
               \cup {<<"0", "7">>, Itoa(MaxInt \div 10) \o <<"8">>}
OffsetTexts == {Itoa(k) : k \in CmdOffsets} \cup {Minus(1), Minus(3)}
Blanks == {<<" ">>, <<" ", "\t">>}
Co == <<"c", "o">>

Malformed ==
    { <<>>, Co, Co \o <<" ">>, <<"c", "p", " ", "1">>, <<" ">> \o Co \o <<" ", "1">>,
      Co \o <<" ", "1", " ">>, Co \o <<" ", "-", "1">>, Co \o <<"1">>,
      Co \o <<" ", "1", " ", "2", " ", "3">>, Co \o <<" ", "5", " ", ">", "2">>,
      Co \o <<" ", "5", ">", " ", "2">>, Co \o <<" ", "5", " ", "=", " ", "2">>,
      Co \o <<" ", "5", " ", ">", " ">>, Co \o <<" ", "5", " ", "<", " ", "-">>,
      Co \o <<" ", "5", " ", "<", " ", "2", "a">>, Co \o <<" ", "a">> }

Commands ==
    {Co \o w \o n : w \in Blanks, n \in NumTexts}
      \cup {Co \o w \o a \o <<" ">> \o b : w \in Blanks, a \in NumTexts, b \in NumTexts}
      \cup {Co \o <<" ">> \o n \o w \o <<o>> \o <<" ">> \o k :
               n \in NumTexts, w \in Blanks, o \in {"<", ">"}, k \in OffsetTexts}
      \cup Malformed

InitCmd ==
    /\ pCmd \in Commands
    /\ pStart = 0
    /\ pEnd = 0
    /\ pErr = "nil"
    /\ pDone = FALSE
    /\ rendererIdle
    /\ themeIdle
    /\ hardIdle
    /\ copyIdle
    /\ storeIdle

CmdReturned(r) ==
    /\ pStart' = r.start
    /\ pEnd' = r.end
    /\ pErr' = r.err
    /\ pDone' = TRUE

DoParseCopyLinesCommand ==
    /\ ~pDone
    /\ CmdReturned(ParseCopyLinesCommand(pCmd))
    /\ UNCHANGED pCmd
    /\ UNCHANGED notCmdVars

NextCmd == DoParseCopyLinesCommand

SpecCmd == InitCmd /\ [][NextCmd]_vars

\* the relative command of a number, an operator and an offset text
Relative(n, w, o, k) == Co \o <<" ">> \o Itoa(n) \o w \o <<o>> \o <<" ">> \o k

\* C25: ParseCopyLinesCommand maps "co N" to (N, N), "co A B" to (A, B),
\* "co N > k" to (N, N+k), "co N > -1" to (N, MaxInt32), "co N < k" to
\* (max(1, N-k), N) and "co N < -1" to (1, N), and returns an error for a
\* command of none of these forms; for an accepted command with k >= 0 and
\* N >= 1 the returned pair satisfies 1 <= start <= end
C25_CommandForms ==
    pDone =>
        /\ \A w \in Blanks, n \in CmdNumbers :
               pCmd = Co \o w \o Itoa(n) =>
                   pErr = "nil" /\ pStart = n /\ pEnd = n
        /\ \A w \in Blanks, a \in CmdNumbers, b \in CmdNumbers :
               pCmd = Co \o w \o Itoa(a) \o <<" ">> \o Itoa(b) =>
                   pErr = "nil" /\ pStart = a /\ pEnd = b
        /\ \A w \in Blanks, n \in CmdNumbers, k \in CmdOffsets :
               pCmd = Relative(n, w, ">", Itoa(k)) =>
                   /\ pErr = "nil" /\ pStart = n
                   /\ n <= MaxInt - k => pEnd = n + k
                   /\ n >= 1 => (1 <= pStart /\ pStart <= pEnd)
        /\ \A w \in Blanks, n \in CmdNumbers :
               pCmd = Relative(n, w, ">", Minus(1)) =>
                   pErr = "nil" /\ pStart = n /\ pEnd = MaxInt32
        /\ \A w \in Blanks, n \in CmdNumbers, k \in CmdOffsets :
               pCmd = Relative(n, w, "<", Itoa(k)) =>
                   /\ pErr = "nil" /\ pStart = Max({1, n - k}) /\ pEnd = n
                   /\ n >= 1 => (1 <= pStart /\ pStart <= pEnd)
        /\ \A w \in Blanks, n \in CmdNumbers :
               pCmd = Relative(n, w, "<", Minus(1)) =>
                   pErr = "nil" /\ pStart = 1 /\ pEnd = n
        /\ pCmd \in Malformed => pErr # "nil"

----------------------------------------------------------------------------
(* The note Store (note/note.go). A note is named by its name, a sequence  *)
(* of characters; the storage is a flat directory of a file system that    *)
(* tells upper case from lower case, and no read or write of it fails but  *)
(* for a file that is not there.                                           *)

MaxNotes == 3
MaxStoreCalls == 4

StoreNames == { <<"a">>, <<"A", "-", "1">>, <<"a", ".", "m", "d">> }
StartDirs == { <<>>, <<<<"a">>>>, <<<<"a">>, <<"A", "-", "1">>>> }

Range(f) == {f[i] : i \in 1..Len(f)}
Without(seq, name) == SelectSeq(seq, LAMBDA n : n # name)

\* strings.ToLower
LowerChar(c) == IF c = "A" THEN "a" ELSE IF c = "B" THEN "b" ELSE c
ToLower(name) == [i \in 1..Len(name) |-> LowerChar(name[i])]

\* strings.TrimSuffix
TrimSuffix(name, suffix) ==
    IF HasSuffix(name, suffix)
    THEN SubSeq(name, 1, Len(name) - Len(suffix))
    ELSE name

Md == <<".", "m", "d">>

\* s.getAllNoteFileNames(), LoadNotes having read the notes of dir
getAllNoteFileNames(dir) == {ToLower(TrimSuffix(n, Md)) : n \in Range(dir)}

\* the loop of generateUniqueName
RECURSIVE UniqueFrom(_, _, _, _)
UniqueFrom(noteFileNames, originalName, name, counter) ==
    IF ToLower(name) \in noteFileNames
    THEN UniqueFrom(noteFileNames, originalName,
                    originalName \o <<"-">> \o Itoa(counter), counter + 1)
    ELSE name

\* s.generateUniqueName(name)
generateUniqueName(dir, name) ==
    IF getAllNoteFileNames(dir) = {} THEN name
    ELSE UniqueFrom(getAllNoteFileNames(dir), name, name, 1)

\* s.GetCurrentNote() and s.GetNoteByName(name): (name of the Note, ok)
GetNoteByName(name) ==
    IF name \in notesDictionary THEN <<name, TRUE>> ELSE <<<<>>, FALSE>>
GetCurrentNote == GetNoteByName(currentNoteName)

InitStore ==
    /\ \E dir \in StartDirs : NewStore(dir)
    /\ rendererIdle
    /\ themeIdle
    /\ hardIdle
    /\ copyIdle
    /\ cmdIdle

\* what every call records
Called(name, arg, err, ret, kept) ==
    /\ sCalls < MaxStoreCalls
    /\ sCalls' = sCalls + 1
    /\ sOp' = name
    /\ sArg' = arg
    /\ sErr' = err
    /\ sRet' = ret
    /\ sOnlyKept' = (sOnlyKept /\ kept /\ err = "nil")
    /\ UNCHANGED notStoreVars

NoUniqueName == UNCHANGED <<gName, gExisting, gResult>>

\* s.generateUniqueName(name) was called and returned unique; LoadNotes, on
\* the copy of the Store, put the notes on disk into the shared dictionary
UniqueNamed(name, unique) ==
    /\ gName' = name
    /\ gExisting' = Range(files)
    /\ gResult' = unique

\* s.LoadNotes()
LoadNotes ==
    /\ notes' = files
    /\ notesDictionary' = notesDictionary \cup Range(files)
    /\ currentNoteName' = IF Len(files) > 0 /\ currentNoteName = <<>>
                          THEN files[1] ELSE currentNoteName
    /\ UNCHANGED <<files, overwrote>>
    /\ NoUniqueName
    /\ Called("LoadNotes", <<>>, "nil", <<>>, TRUE)

\* the body of s.Delete(name), called as fn
DeleteAs(fn, name) ==
    /\ IF name \in Range(files)
       THEN /\ files' = Without(files, name)
            /\ notes' = Without(notes, name)
            /\ Called(fn, name, "nil", <<>>, TRUE)
       ELSE /\ UNCHANGED <<files, notes>>
            /\ Called(fn, name, "remove", <<>>, TRUE)
    /\ UNCHANGED <<notesDictionary, currentNoteName, overwrote>>
    /\ NoUniqueName

\* s.Delete(name)
Delete(name) == DeleteAs("Delete", name)

\* s.DeleteCurrentNote()
DeleteCurrentNote ==
    IF GetCurrentNote[2]
    THEN DeleteAs("DeleteCurrentNote", GetCurrentNote[1])
    ELSE /\ UNCHANGED <<files, notes, notesDictionary, currentNoteName, overwrote>>
         /\ NoUniqueName
         /\ Called("DeleteCurrentNote", currentNoteName, "not found", <<>>, FALSE)

\* the file of note from is renamed to the file of note to
Renamed(dir, from, to) ==
    [i \in 1..Len(Without(dir, IF to = from THEN <<"/">> ELSE to)) |->
        IF Without(dir, IF to = from THEN <<"/">> ELSE to)[i] = from
        THEN to
        ELSE Without(dir, IF to = from THEN <<"/">> ELSE to)[i]]

\* the first note of the list that is named currentName takes the new name
RenamedInList(list, currentName, newName) ==
    [i \in 1..Len(list) |->
        IF i = Min({j \in 1..Len(list) : list[j] = currentName})
        THEN newName ELSE list[i]]

\* the body of s.RenameNote(currentName, newName), newName made unique,
\* called as fn: s is a copy of the Store, so s.currentNoteName = newName
\* is lost; the list and the dictionary are shared with the Store
RenameAs(fn, currentName, newName, unique) ==
    /\ UniqueNamed(newName, unique)
    /\ IF currentName \notin Range(files)
       THEN /\ notesDictionary' = notesDictionary \cup Range(files)
            /\ UNCHANGED <<files, notes, overwrote>>
            /\ Called(fn, currentName, "rename", <<>>, TRUE)
       ELSE /\ files' = Renamed(files, currentName, unique)
            /\ overwrote' = (unique \in Range(files) /\ unique # currentName)
            /\ IF currentName \in Range(notes)
               THEN /\ notes' = RenamedInList(notes, currentName, unique)
                    /\ notesDictionary' =
                          ((notesDictionary \cup Range(files)) \ {currentName})
                              \cup {unique}
                    /\ Called(fn, currentName, "nil", unique, TRUE)
               ELSE /\ notesDictionary' = notesDictionary \cup Range(files)
                    /\ UNCHANGED notes
                    /\ Called(fn, currentName, "nil", <<>>, TRUE)
    /\ UNCHANGED currentNoteName

\* s.RenameNote(currentName, newName)
RenameNote(currentName, newName) ==
    RenameAs("RenameNote", currentName, newName,
             generateUniqueName(files, newName))

\* s.RenameCurrentNote(newName)
RenameCurrentNote(newName) ==
    IF GetCurrentNote[2]
    THEN RenameAs("RenameCurrentNote", GetCurrentNote[1], newName,
                  generateUniqueName(files, newName))
    ELSE /\ UNCHANGED <<files, notes, notesDictionary, currentNoteName, overwrote>>
         /\ NoUniqueName
         /\ Called("RenameCurrentNote", currentNoteName, "not found", <<>>, FALSE)

\* s.saveNote(note) of a note named name, its name made unique
SaveAs(name, unique) ==
    /\ Len(files) < MaxNotes
    /\ UniqueNamed(name, unique)
    /\ files' = <<unique>> \o Without(files, unique)
    /\ overwrote' = (unique \in Range(files))
    /\ notesDictionary' = notesDictionary \cup Range(files)
    /\ UNCHANGED <<notes, currentNoteName>>
    /\ Called("Create", name, "nil", <<>>, FALSE)

\* s.Create(name, content)
Create(name) == SaveAs(name, generateUniqueName(files, name))

\* s.SetCurrentNoteName(name)
SetCurrentNoteName(name) ==
    /\ currentNoteName' = name
    /\ UNCHANGED <<files, notes, notesDictionary, overwrote>>
    /\ NoUniqueName
    /\ Called("SetCurrentNoteName", name, "nil", <<>>, FALSE)

NextStore ==
    \/ LoadNotes
    \/ \E name \in StoreNames : Delete(name)
    \/ DeleteCurrentNote
    \/ \E currentName \in StoreNames, newName \in StoreNames :
           RenameNote(currentName, newName)
    \/ \E newName \in StoreNames : RenameCurrentNote(newName)
    \/ \E name \in StoreNames : Create(name)
    \/ \E name \in StoreNames : SetCurrentNoteName(name)

SpecStore == InitStore /\ [][NextStore]_vars

\* C23: after a RenameCurrentNote(newName) that succeeds, the current note
\* name of the Store is the name of the returned note, GetCurrentNote
\* returns that note, and the old name is no key of the dictionary
C23_CurrentNoteFollowsRename ==
    (sOp = "RenameCurrentNote" /\ sErr = "nil") =>
        /\ currentNoteName = sRet
        /\ GetCurrentNote = <<sRet, TRUE>>
        /\ sArg \notin notesDictionary

\* C30: after LoadNotes, Delete and RenameNote calls that all succeeded the
\* list and the dictionary hold the same note names; after a Delete(name)
\* GetNoteByName(name) finds nothing and GetCurrentNote does not return the
\* deleted note
C30_ListMatchesDictionary ==
    sOnlyKept =>
        /\ Range(notes) = notesDictionary
        /\ sOp = "Delete" =>
               /\ ~GetNoteByName(sArg)[2]
               /\ ~(GetCurrentNote[2] /\ GetCurrentNote[1] = sArg)

\* generateUniqueName was called by the last call on the Store
UniqueNameAsked ==
    sOp \in {"Create", "RenameNote", "RenameCurrentNote"} /\ sErr # "not found"

\* no note on disk had the name, upper and lower case taken as the same
NotTaken(name) == \A n \in gExisting : ToLower(n) # ToLower(name)

Numbered(name, k) == name \o <<"-">> \o Itoa(k)

\* C26: generateUniqueName(name) returns name when no note has that name,
\* compared case-insensitively, and otherwise name-k for the smallest
\* k >= 1 such that no note is named name-k; saving or renaming therefore
\* never writes over the file of a note
C26_UniqueNameIsFree ==
    UniqueNameAsked =>
        /\ IF NotTaken(gName)
           THEN gResult = gName
           ELSE \E k \in 1..(MaxNotes + 1) :
                    /\ gResult = Numbered(gName, k)
                    /\ NotTaken(Numbered(gName, k))
                    /\ \A j \in 1..(k - 1) : ~NotTaken(Numbered(gName, j))
        /\ ~overwrote

=============================================================================
